---------------------------- MODULE Spec2Model ----------------------------
(* The frontier of crawler/frontier.py (durable store, per-domain queues,   *)
(* politeness clock, seen set), the worker loop of crawler/worker.py that   *)
(* drives it, and the process life cycle (start, crash, start again) around *)
(* both.                                                                    *)
(*                                                                          *)
(* Time is discrete.  The frontier stores wall-clock timestamps in          *)
(* last_access_time and only ever reads the difference                      *)
(* current_time - last_access_time[domain], compared with the politeness    *)
(* delay; the model keeps that difference (saturated at the delay) instead  *)
(* of the two timestamps, which keeps the state space finite while the      *)
(* clock runs on.                                                           *)
EXTENDS Integers, Sequences, FiniteSets, TLC

(***************************************************************************)
(* Bounds of the model                                                     *)
(***************************************************************************)
\* config.time_delay, the politeness delay, in clock ticks
time_delay == 2
\* how many times the process may stop and be started again
MaxCrashes == 1
\* max_consecutive_none of Worker.run (100 polls in the source), scaled down
max_consecutive_none == 2
\* max_idle_time of Worker.run (30 s in the source), in clock ticks, scaled down
max_idle_time == 2
\* SIMHASH_WINDOW of scraper.py (1000 entries in the source), scaled down
SIMHASH_WINDOW == 2
\* the value at which the model stops counting in rejection_stats
MaxRejections == 2
\* MAX_URL_LENGTH of scraper.py (600 characters in the source), scaled down
MAX_URL_LENGTH == 60
\* max_same of is_url_trap (15 calls on one path in the source), scaled down
max_same == 2
\* max_same for a legitimate pattern (25 in the source), scaled down
max_same_legitimate == 3
\* max_repeats of is_url_trap (75 calls on one pattern in the source), scaled down
max_repeats == 4
\* max_repeats for a legitimate pattern (150 in the source), scaled down
max_repeats_legitimate == 5
Workers == {"w1", "w2"}

(***************************************************************************)
(* URLs.  A URL is the record urlparse() makes of it; a netloc is the      *)
(* sequence of its dot-separated labels, so that the suffix tests of       *)
(* is_valid are computed, not assumed.                                     *)
(***************************************************************************)
Url(s, n, p, f) == [scheme |-> s, netloc |-> n, path |-> p, fragment |-> f]

\* the value None of a worker's tbd_url
NoUrl == Url("none", <<>>, "", "")

a1  == Url("https", <<"ics", "uci", "edu">>, "/a", "")
a1u == Url("https", <<"ICS", "uci", "edu">>, "/a", "")
a2  == Url("https", <<"ics", "uci", "edu">>, "/b", "")
b1  == Url("https", <<"www", "cs", "uci", "edu">>, "/c", "")
x1  == Url("https", <<"www", "uci", "edu">>, "/d", "")

RawUrls == {a1, a1u, a2, b1, x1}

\* config.seed_urls: the seed lists a run may be configured with
SeedOptions == {<<>>, <<a1, b1>>, <<a1u, x1>>}

(***************************************************************************)
(* Helpers on sequences and finite maps                                    *)
(***************************************************************************)
Range(s) == {s[i] : i \in 1..Len(s)}

EmptyMap == [k \in {} |-> NoUrl]

\* a defaultdict(int) with no key yet, and the value it gives for a key
NoCounts == [k \in {} |-> 0]

Get(counter, k) == IF k \in DOMAIN counter THEN counter[k] ELSE 0

Put(f, k, v) == [x \in (DOMAIN f) \cup {k} |-> IF x = k THEN v ELSE f[x]]

Min(a, b) == IF a < b THEN a ELSE b

\* the orders in which the elements of a finite set can be enumerated
Orders(S) ==
    {s \in [1..Cardinality(S) -> S] : \A i, j \in 1..Cardinality(S) : s[i] = s[j] => i = j}

(***************************************************************************)
(* utils: normalize, get_urlhash                                           *)
(***************************************************************************)
\* str.lower() on the labels of the universe
lower(l) == IF l = "ICS" THEN "ics" ELSE l

LowerNetloc(n) == [i \in 1..Len(n) |-> lower(n[i])]

\* lowercase host, fragment dropped, path left as it is
normalize(url) == [url EXCEPT !.netloc = LowerNetloc(@), !.fragment = ""]

\* a digest of the URL string; distinct strings have distinct digests
get_urlhash(url) == <<"md5", url.scheme, url.netloc, url.path, url.fragment>>

(***************************************************************************)
(* scraper.is_valid on the URLs of the universe.  Checks 1 to 3 are        *)
(* computed.  Checks 4 to 10 accept every URL of the universe: its URLs    *)
(* are short, have no query and no extension, match no calendar or trap    *)
(* pattern, and there are fewer of them than the smallest threshold of     *)
(* is_url_trap (15 calls on one path), whose counters start at zero in     *)
(* every process.                                                          *)
(***************************************************************************)
VALID_DOMAINS ==
    {<<"ics", "uci", "edu">>, <<"cs", "uci", "edu">>,
     <<"informatics", "uci", "edu">>, <<"stat", "uci", "edu">>}

blocked ==
    {<<"physics", "uci", "edu">>, <<"economics", "uci", "edu">>,
     <<"chem", "uci", "edu">>, <<"bio", "uci", "edu">>, <<"math", "uci", "edu">>,
     <<"engineering", "uci", "edu">>, <<"cecs", "uci", "edu">>,
     <<"eecs", "uci", "edu">>, <<"nacs", "uci", "edu">>}

\* netloc == d or netloc.endswith('.' + d)
HostMatches(n, d) ==
    /\ Len(n) >= Len(d)
    /\ SubSeq(n, Len(n) - Len(d) + 1, Len(n)) = d

is_valid(url) ==
    LET netloc == LowerNetloc(url.netloc) IN
    /\ url.scheme \in {"http", "https"}
    /\ \E d \in VALID_DOMAINS : HostMatches(netloc, d)
    /\ ~ \E b \in blocked : HostMatches(netloc, b)

(***************************************************************************)
(* State                                                                   *)
(***************************************************************************)
VARIABLES
    proc,              \* "down": no process; "ready": Frontier built; "up": workers run
    restart,           \* the restart flag the Frontier was last built with
    seed_urls,         \* config.seed_urls
    crashes,           \* how often the process has stopped
    save,              \* the shelve file: urlhash -> <<url, completed>>
    domain_queues,     \* the dict domain -> Queue, in insertion order
    last_access_time,  \* domain -> ticks since the domain was last served
    urls_seen,         \* the set urls_seen
    pc,                \* each worker's place in Worker.run
    tbd_url,           \* each worker's tbd_url
    passed,            \* history: URLs passed to add_url by this process
    accepted,          \* history: URLs this process' add_url found new
    since_return,      \* history: domain -> ticks since get_tbd_url last returned one of its URLs
    crashed_with,      \* history: the URLs workers held when the process last stopped
    consecutive_none_count,  \* each worker's consecutive_none_count, saturated at the maximum
    idle_time,         \* each worker's time() - last_successful_download, saturated
    count_at,          \* _get_total_tbd_count of a worker: the queue it reads next
    count,             \* _get_total_tbd_count of a worker: count
    count_len,         \* _get_total_tbd_count of a worker: the size of the dict it iterates
    seen_empty,        \* history: all queues were empty at some moment of the worker's count
    returned,          \* history: how many URLs of the observed host get_tbd_url has returned
    elapsed,           \* history: ticks since the first of these returns, saturated
    seen_exact_hashes, \* scraper.seen_exact_hashes
    seen_simhashes,    \* scraper.seen_simhashes, oldest first
    dup_pc,            \* each worker's place in is_duplicate
    dup_text,          \* the text_content and url of each worker's call of is_duplicate
    dup_result,        \* what each worker's last call of is_duplicate returned
    checked,           \* history: the digests of the texts is_duplicate has decided on
    checked_long,      \* history: those of the texts that were not too short
    second_not_exact,  \* history: digests a later call was not reported 'exact' for
    second_long_not_exact,  \* history: the same, both texts not too short
    checked_url,       \* the URL of the last call of is_valid
    rejection_reason,  \* the reason the last call of is_valid logged, "" if none
    rejection_stats,   \* scraper.rejection_stats, counts saturated
    url_pattern_counter,  \* scraper.url_pattern_counter
    domain_path_counter,  \* scraper.domain_path_counter
    called_url,        \* the URL string of the last call of is_valid, "" if none
    calls,             \* how many calls of is_valid on URL strings have begun
    accepted_at,       \* history: <<host, path>> -> calls is_valid returned True for
    trap_lock,         \* scraper.trap_lock: the worker that holds it, "" if free
    trap_pc,           \* each worker's place in is_url_trap
    trap_url,          \* the url of each worker's call of is_url_trap
    trap_read,         \* the counter value each worker has read under trap_lock
    pattern_entered,   \* history: pattern -> calls that have left the first locked block
    pattern_passed,    \* history: pattern -> those the pattern rule did not reject
    stage,             \* each worker thread's place in Worker.run and scraper.scraper
    holder,            \* each lock's holder, "" if it is free
    mark_arg,          \* the url of the last call of mark_url_complete from outside Worker.run
    mark_calls,        \* how many such calls there have been
    scrape_pc,         \* each worker's place in scraper.scraper
    scrape_page,       \* the url and resp of each worker's call of scraper
    scrape_links,      \* the links each worker's call of scraper has still to pass to is_valid
    scrape_result,     \* what each worker's last call of scraper returned
    page_store,        \* the urls whose page save_page_data has written
    processing_log,    \* the entries of log_processing, but for their timestamps
    scrapes,           \* how many calls of scraper have begun
    link_verdicts      \* history: <<link, what is_valid returned>> of the scraper's calls

frontier_vars == <<proc, restart, seed_urls, crashes, save, domain_queues, last_access_time,
                   urls_seen, pc, tbd_url, passed, accepted, since_return,
                   crashed_with>>

\* the locals of Worker.run that decide when it stops
idle_vars == <<consecutive_none_count, idle_time, count_at, count, count_len, seen_empty>>

\* the observer of the returns of one host
host_vars == <<returned, elapsed>>

\* the duplicate detector of scraper.py
dup_vars == <<seen_exact_hashes, seen_simhashes, dup_pc, dup_text, dup_result,
              checked, checked_long, second_not_exact, second_long_not_exact>>

\* is_valid and its rejection log
valid_vars == <<checked_url, rejection_reason, rejection_stats>>

\* the trap detector of scraper.py
trap_vars == <<url_pattern_counter, domain_path_counter, called_url, calls, accepted_at,
               trap_lock, trap_pc, trap_url, trap_read, pattern_entered, pattern_passed>>

\* the locks of frontier.py and scraper.py and the threads' places between them
lock_vars == <<stage, holder>>

\* scraper.scraper, its page store and its processing log
scrape_vars == <<scrape_pc, scrape_page, scrape_links, scrape_result, page_store,
                 processing_log, scrapes, link_verdicts>>

\* calls of Frontier.mark_url_complete that do not come from Worker.run
mark_vars == <<mark_arg, mark_calls>>

\* what the frontier and the worker loop leave alone
aside_vars == <<host_vars, dup_vars, valid_vars, trap_vars, lock_vars, mark_vars,
                scrape_vars>>

vars == <<frontier_vars, idle_vars, host_vars, dup_vars, valid_vars, trap_vars, lock_vars,
          mark_vars, scrape_vars>>

frontier == [save |-> save, domain_queues |-> domain_queues, urls_seen |-> urls_seen]

(***************************************************************************)
(* Frontier                                                                *)
(***************************************************************************)
\* _get_domain that always takes its except branch
_get_domain_unknown(url) == <<"unknown">>

_get_domain(url) == LowerNetloc(url.netloc)

\* _add_to_domain_queue that puts the URL at the front of its queue
_add_to_domain_queue_front(dq, url) ==
    LET domain == LowerNetloc(url.netloc) IN
    IF \E i \in 1..Len(dq) : dq[i].domain = domain
    THEN [i \in 1..Len(dq) |->
            IF dq[i].domain = domain
            THEN [dq[i] EXCEPT !.queue = <<url>> \o @]
            ELSE dq[i]]
    ELSE Append(dq, [domain |-> domain, queue |-> <<url>>])

_add_to_domain_queue(dq, url) ==
    LET domain == _get_domain(url) IN
    IF \E i \in 1..Len(dq) : dq[i].domain = domain
    THEN [i \in 1..Len(dq) |->
            IF dq[i].domain = domain
            THEN [dq[i] EXCEPT !.queue = Append(@, url)]
            ELSE dq[i]]
    ELSE Append(dq, [domain |-> domain, queue |-> <<url>>])

RECURSIVE SumLen(_)
SumLen(dq) == IF dq = <<>> THEN 0 ELSE Len(Head(dq).queue) + SumLen(Tail(dq))

_get_total_tbd_count(dq) == SumLen(dq)

\* add_url that stores and records a new URL and forgets to enqueue it
add_url_noenqueue(F, url) ==
    LET u == normalize(url)
        urlhash == get_urlhash(u)
    IN  IF u \in F.urls_seen \/ urlhash \in DOMAIN F.save THEN F
        ELSE [F EXCEPT !.save = Put(@, urlhash, <<u, FALSE>>), !.urls_seen = @ \cup {u}]

\* add_url that stores and enqueues a new URL and forgets urls_seen.add
add_url_noseen(F, url) ==
    LET u == normalize(url)
        urlhash == get_urlhash(u)
    IN  IF u \in F.urls_seen \/ urlhash \in DOMAIN F.save THEN F
        ELSE [F EXCEPT !.save = Put(@, urlhash, <<u, FALSE>>),
                       !.domain_queues = _add_to_domain_queue(@, u)]

\* add_url that enqueues and records a new URL and writes nothing to the store
add_url_nostore(F, url) ==
    LET u == normalize(url) IN
    IF u \in F.urls_seen \/ get_urlhash(u) \in DOMAIN F.save THEN F
    ELSE [F EXCEPT !.domain_queues = _add_to_domain_queue(@, u), !.urls_seen = @ \cup {u}]

\* add_url without either duplicate check
add_url_nodedup(F, url) ==
    LET u == normalize(url) IN
    [save |-> Put(F.save, get_urlhash(u), <<u, FALSE>>),
     domain_queues |-> _add_to_domain_queue(F.domain_queues, u),
     urls_seen |-> F.urls_seen \cup {u}]

add_url(F, url) ==
    LET u == normalize(url)
        urlhash == get_urlhash(u)
    IN  IF u \in F.urls_seen THEN F
        ELSE IF urlhash \notin DOMAIN F.save
        THEN [save |-> Put(F.save, urlhash, <<u, FALSE>>),
              domain_queues |-> _add_to_domain_queue(F.domain_queues, u),
              urls_seen |-> F.urls_seen \cup {u}]
        ELSE F

\* mark_url_complete, had it written the entry of a known url only
mark_url_complete_seen_only(sv, url) ==
    IF get_urlhash(url) \in DOMAIN sv THEN Put(sv, get_urlhash(url), <<url, TRUE>>) ELSE sv

mark_url_complete(sv, url) == Put(sv, get_urlhash(url), <<url, TRUE>>)

\* _parse_save_file without the test of is_valid
RECURSIVE _parse_save_file_novalid(_, _)
_parse_save_file_novalid(F, order) ==
    IF order = <<>> THEN F
    ELSE LET url == Head(order)[1]
             G == IF ~Head(order)[2]
                  THEN [F EXCEPT !.domain_queues = _add_to_domain_queue(@, url),
                                 !.urls_seen = @ \cup {normalize(url)}]
                  ELSE F
         IN  _parse_save_file_novalid(G, Tail(order))

\* _parse_save_file without the test of completed
RECURSIVE _parse_save_file_all(_, _)
_parse_save_file_all(F, order) ==
    IF order = <<>> THEN F
    ELSE LET url == Head(order)[1]
             G == IF is_valid(url)
                  THEN [F EXCEPT !.domain_queues = _add_to_domain_queue(@, url),
                                 !.urls_seen = @ \cup {normalize(url)}]
                  ELSE F
         IN  _parse_save_file_all(G, Tail(order))

\* _parse_save_file that records the pending URLs as seen and enqueues none
RECURSIVE _parse_save_file_noqueue(_, _)
_parse_save_file_noqueue(F, order) ==
    IF order = <<>> THEN F
    ELSE LET url == Head(order)[1]
             G == IF ~Head(order)[2] /\ is_valid(url)
                  THEN [F EXCEPT !.urls_seen = @ \cup {normalize(url)}]
                  ELSE F
         IN  _parse_save_file_noqueue(G, Tail(order))

\* the loop of _parse_save_file over save.values(), taken in the order `order`
RECURSIVE _parse_save_file(_, _)
_parse_save_file(F, order) ==
    IF order = <<>> THEN F
    ELSE LET url == Head(order)[1]
             completed == Head(order)[2]
             G == IF ~completed /\ is_valid(url)
                  THEN [F EXCEPT !.domain_queues = _add_to_domain_queue(@, url),
                                 !.urls_seen = @ \cup {normalize(url)}]
                  ELSE F
         IN  _parse_save_file(G, Tail(order))

\* for url in self.config.seed_urls: self.add_url(url)
RECURSIVE AddSeeds(_, _)
AddSeeds(F, urls) ==
    IF urls = <<>> THEN F ELSE AddSeeds(add_url(F, Head(urls)), Tail(urls))

\* Frontier.__init__ that does not remove the store it finds
FrontierInit_keep_store(sv, r, order) ==
    LET F0 == [save |-> sv, domain_queues |-> <<>>, urls_seen |-> {}]
    IN  IF r THEN AddSeeds(F0, seed_urls)
        ELSE LET F1 == _parse_save_file(F0, order)
             IN  IF DOMAIN F1.save = {} THEN AddSeeds(F1, seed_urls) ELSE F1

\* Frontier.__init__ on the store sv; `order` is the order of save.values()
FrontierInit(sv, r, order) ==
    LET F0 == [save |-> IF r THEN EmptyMap ELSE sv, domain_queues |-> <<>>, urls_seen |-> {}]
    IN  IF r THEN AddSeeds(F0, seed_urls)
        ELSE LET F1 == _parse_save_file(F0, order)
             IN  IF DOMAIN F1.save = {} THEN AddSeeds(F1, seed_urls) ELSE F1

time_since_last(lat, domain) ==
    IF domain \in DOMAIN lat THEN lat[domain] ELSE time_delay

\* ready_domains without the politeness test
ready_domains_nodelay(dq, lat) == {i \in 1..Len(dq) : dq[i].queue # <<>>}

\* the indices of domain_queues that get_tbd_url finds ready
ready_domains(dq, lat) ==
    {i \in 1..Len(dq) :
        /\ dq[i].queue # <<>>
        /\ time_since_last(lat, dq[i].domain) >= time_delay}

\* get_tbd_url that forgets to record the time of the access
get_tbd_url_nostamp(dq, lat) ==
    LET ready == ready_domains(dq, lat) IN
    IF ready = {}
    THEN [url |-> NoUrl, domain_queues |-> dq, last_access_time |-> lat]
    ELSE LET i == CHOOSE k \in ready : \A m \in ready : k <= m
         IN  [url |-> Head(dq[i].queue),
              domain_queues |-> [dq EXCEPT ![i].queue = Tail(@)],
              last_access_time |-> lat]

\* get_tbd_url that records the access for every ready domain
get_tbd_url_stampall(dq, lat) ==
    LET ready == ready_domains(dq, lat) IN
    IF ready = {}
    THEN [url |-> NoUrl, domain_queues |-> dq, last_access_time |-> lat]
    ELSE LET i == CHOOSE k \in ready : \A m \in ready : k <= m
         IN  [url |-> Head(dq[i].queue),
              domain_queues |-> [dq EXCEPT ![i].queue = Tail(@)],
              last_access_time |->
                  [d \in DOMAIN lat \cup {dq[k].domain : k \in ready} |->
                      IF d \in {dq[k].domain : k \in ready} THEN 0 ELSE lat[d]]]

get_tbd_url(dq, lat) ==
    LET ready == ready_domains(dq, lat) IN
    IF ready = {}
    THEN [url |-> NoUrl, domain_queues |-> dq, last_access_time |-> lat]
    ELSE LET i == CHOOSE k \in ready : \A m \in ready : k <= m
         IN  [url |-> Head(dq[i].queue),
              domain_queues |-> [dq EXCEPT ![i].queue = Tail(@)],
              last_access_time |-> Put(lat, dq[i].domain, 0)]

(***************************************************************************)
(* Readings of the state                                                   *)
(***************************************************************************)
Queued == UNION {Range(domain_queues[i].queue) : i \in 1..Len(domain_queues)}

InFlight == {tbd_url[w] : w \in Workers} \ {NoUrl}

Completed(u) == get_urlhash(u) \in DOMAIN save /\ save[get_urlhash(u)] = <<u, TRUE>>

Pending(u) == get_urlhash(u) \in DOMAIN save /\ save[get_urlhash(u)] = <<u, FALSE>>

Stored == {save[h][1] : h \in DOMAIN save}

(***************************************************************************)
(* Actions                                                                 *)
(***************************************************************************)
\* no URL of the observed host has been returned
HostInit ==
    /\ returned = 0
    /\ elapsed = 0

\* a page text, as far as is_duplicate looks at it: whether its stripped length
\* is at least 100, its MD5 digest, and the bits that are set in its simhash
Text(l, m, s) == [long |-> l, md5 |-> m, simhash |-> s]

NoText == Text(FALSE, "", {})

\* no call of is_duplicate has returned yet
NoResult == <<FALSE, "">>

\* scraper.py, lines 67-69, and no call of is_duplicate under way
DupInit ==
    /\ seen_exact_hashes = {}
    /\ seen_simhashes = <<>>
    /\ dup_pc = [w \in Workers |-> "idle"]
    /\ dup_text = [w \in Workers |-> <<NoText, NoUrl>>]
    /\ dup_result = [w \in Workers |-> NoResult]
    /\ checked = {}
    /\ checked_long = {}
    /\ second_not_exact = {}
    /\ second_long_not_exact = {}

\* the reasons is_valid logs for the URLs of the model
Reasons ==
    {"bad_scheme", "bad_domain", "blocked_domain", "url_too_long", "calendar_event",
     "known_trap", "url_trap", "ext_pdf", "format_param", "action"}

\* scraper.py, line 71, and no call of is_valid yet
ValidInit ==
    /\ checked_url = NoUrl
    /\ rejection_reason = ""
    /\ rejection_stats = [r \in Reasons |-> 0]

\* scraper.py, lines 78-80, and no call of is_valid on a URL string yet
TrapInit ==
    /\ url_pattern_counter = NoCounts
    /\ domain_path_counter = NoCounts
    /\ called_url = ""
    /\ calls = 0
    /\ accepted_at = NoCounts
    /\ trap_lock = ""
    /\ trap_pc = [w \in Workers |-> "out"]
    /\ trap_url = [w \in Workers |-> ""]
    /\ trap_read = [w \in Workers |-> 0]
    /\ pattern_entered = NoCounts
    /\ pattern_passed = NoCounts

\* the locks of frontier.py:17 and scraper.py:65-80
Locks == {"frontier", "progress", "duplicate", "rejection", "processing", "trap"}

\* the worker threads and the thread that constructs the Frontier
Threads == Workers \cup {"main"}

\* every worker at the top of Worker.run's loop, the main thread before
\* Frontier.__init__, every lock free
LockInit ==
    /\ stage = [t \in Threads |-> IF t = "main" THEN "init" ELSE "loop"]
    /\ holder = [l \in Locks |-> ""]

\* Worker.run, lines 27-30, and no _get_total_tbd_count under way
IdleInit ==
    /\ consecutive_none_count = [w \in Workers |-> 0]
    /\ idle_time = [w \in Workers |-> 0]
    /\ count_at = [w \in Workers |-> 0]
    /\ count = [w \in Workers |-> 0]
    /\ count_len = [w \in Workers |-> 0]
    /\ seen_empty = [w \in Workers |-> FALSE]

NoWorkers ==
    /\ pc' = [w \in Workers |-> "loop"]
    /\ tbd_url' = [w \in Workers |-> NoUrl]

\* a page: the url and the resp scraper is called with, as far as scraper
\* looks at them; no resp at all has status 0
Page(u, st, sz, tx, wc, body, nav) ==
    [url |-> u, status |-> st, size |-> sz, text |-> tx, words |-> wc,
     body_links |-> body, nav_links |-> nav]

NoPage == Page("", 0, 0, NoText, 0, {}, {})

\* scraper.py, lines 61-76: nothing processed, nothing saved
ScrapeInit ==
    /\ scrape_pc = [w \in Workers |-> "idle"]
    /\ scrape_page = [w \in Workers |-> NoPage]
    /\ scrape_links = [w \in Workers |-> {}]
    /\ scrape_result = [w \in Workers |-> {}]
    /\ page_store = {}
    /\ processing_log = <<>>
    /\ scrapes = 0
    /\ link_verdicts = {}

MarkInit ==
    /\ mark_arg = NoUrl
    /\ mark_calls = 0

\* the state before the first launch, but for the seed list
InitState ==
    /\ proc = "down"
    /\ restart = FALSE
    /\ crashes = 0
    /\ save = EmptyMap
    /\ domain_queues = <<>>
    /\ last_access_time = EmptyMap
    /\ urls_seen = {}
    /\ pc = [w \in Workers |-> "loop"]
    /\ tbd_url = [w \in Workers |-> NoUrl]
    /\ passed = {}
    /\ accepted = {}
    /\ since_return = EmptyMap
    /\ crashed_with = {}
    /\ IdleInit
    /\ HostInit
    /\ DupInit
    /\ ValidInit
    /\ TrapInit
    /\ LockInit
    /\ MarkInit
    /\ ScrapeInit

Init == seed_urls \in SeedOptions /\ InitState

\* launch: Frontier(config, restart)
Start(r) ==
    /\ proc = "down"
    /\ \E order \in Orders({save[h] : h \in DOMAIN save}) :
         LET F == FrontierInit(save, r, order) IN
         /\ save' = F.save
         /\ domain_queues' = F.domain_queues
         /\ urls_seen' = F.urls_seen
         /\ LET seeded == r \/ DOMAIN save = {} IN
            /\ passed' = IF seeded THEN {normalize(u) : u \in Range(seed_urls)} ELSE {}
            /\ accepted' = IF seeded THEN {normalize(u) : u \in Range(seed_urls)} ELSE {}
    /\ proc' = "ready"
    /\ restart' = r
    /\ last_access_time' = EmptyMap
    /\ since_return' = EmptyMap
    /\ NoWorkers
    /\ UNCHANGED <<seed_urls, crashes, crashed_with>>
    /\ UNCHANGED <<idle_vars, aside_vars>>

\* Crawler.start: the worker threads begin to run
Launch ==
    /\ proc = "ready"
    /\ proc' = "up"
    /\ UNCHANGED <<restart, seed_urls, crashes, save, domain_queues, last_access_time,
                   urls_seen, pc, tbd_url, passed, accepted, since_return,
                   crashed_with>>
    /\ UNCHANGED <<idle_vars, aside_vars>>

\* the process stops; only the shelve file survives
Crash ==
    /\ proc \in {"ready", "up"}
    /\ crashes < MaxCrashes
    /\ crashes' = crashes + 1
    /\ proc' = "down"
    /\ crashed_with' = InFlight
    /\ domain_queues' = <<>>
    /\ last_access_time' = EmptyMap
    /\ urls_seen' = {}
    /\ passed' = {}
    /\ accepted' = {}
    /\ since_return' = EmptyMap
    /\ NoWorkers
    /\ UNCHANGED <<restart, seed_urls, save>>
    /\ UNCHANGED <<idle_vars, aside_vars>>

\* time() moves on by one tick
Tick ==
    /\ proc = "up"
    /\ last_access_time' =
         [d \in DOMAIN last_access_time |-> Min(last_access_time[d] + 1, time_delay)]
    /\ since_return' =
         [d \in DOMAIN since_return |-> Min(since_return[d] + 1, time_delay)]
    /\ UNCHANGED <<proc, restart, seed_urls, crashes, save, domain_queues, urls_seen,
                   pc, tbd_url, passed, accepted, crashed_with>>
    /\ UNCHANGED <<idle_vars, aside_vars>>

\* Worker.run, lines 34-64: tbd_url = self.frontier.get_tbd_url()
WorkerGet(w) ==
    /\ proc = "up"
    /\ pc[w] = "loop"
    /\ LET r == get_tbd_url(domain_queues, last_access_time) IN
       /\ domain_queues' = r.domain_queues
       /\ last_access_time' = r.last_access_time
       /\ tbd_url' = [tbd_url EXCEPT ![w] = r.url]
       /\ pc' = [pc EXCEPT ![w] = IF r.url = NoUrl THEN "loop" ELSE "download"]
       /\ since_return' =
            IF r.url = NoUrl THEN since_return
            ELSE Put(since_return, _get_domain(r.url), 0)
    /\ UNCHANGED <<proc, restart, seed_urls, crashes, save, urls_seen,
                   passed, accepted, crashed_with>>
    /\ UNCHANGED <<idle_vars, aside_vars>>

\* the links scraper.scraper can hand back for the page at url: valid, and not
\* the page itself
ScrapedLinks(url) == {u \in RawUrls : is_valid(u) /\ u # url}

\* Worker.run, lines 66-77: download, then scraper.scraper(tbd_url, resp)
WorkerScrape(w) ==
    /\ proc = "up"
    /\ pc[w] = "download"
    /\ pc' = [pc EXCEPT ![w] = "add"]
    /\ UNCHANGED <<proc, restart, seed_urls, crashes, save, domain_queues,
                   last_access_time, urls_seen, tbd_url, passed, accepted, since_return,
                   crashed_with>>
    /\ UNCHANGED <<idle_vars, aside_vars>>

\* Worker.run, lines 80-84: one turn of the loop over scraped_urls.  The list is
\* whatever the page held, so its next element is any link the scraper admits.
WorkerAdd(w) ==
    /\ proc = "up"
    /\ pc[w] = "add"
    /\ \E url \in ScrapedLinks(tbd_url[w]) :
         LET F == add_url(frontier, url) IN
         /\ save' = F.save
         /\ domain_queues' = F.domain_queues
         /\ urls_seen' = F.urls_seen
         /\ passed' = passed \cup {normalize(url)}
         /\ accepted' = IF get_urlhash(normalize(url)) \in DOMAIN save
                        THEN accepted ELSE accepted \cup {normalize(url)}
    /\ UNCHANGED <<proc, restart, seed_urls, crashes, last_access_time, pc, tbd_url,
                   since_return, crashed_with>>
    /\ UNCHANGED <<idle_vars, aside_vars>>

\* Worker.run, lines 86-96: self.frontier.mark_url_complete(tbd_url)
WorkerMark(w) ==
    /\ proc = "up"
    /\ pc[w] = "add"
    /\ save' = mark_url_complete(save, tbd_url[w])
    /\ pc' = [pc EXCEPT ![w] = "loop"]
    /\ tbd_url' = [tbd_url EXCEPT ![w] = NoUrl]
    /\ UNCHANGED <<proc, restart, seed_urls, crashes, domain_queues, last_access_time,
                   urls_seen, passed, accepted, since_return, crashed_with>>
    /\ UNCHANGED <<idle_vars, aside_vars>>

\* the handler of lines 98-108 without its call of mark_url_complete
WorkerFail_nomark(w) ==
    /\ proc = "up"
    /\ pc[w] = "download"
    /\ pc' = [pc EXCEPT ![w] = "loop"]
    /\ tbd_url' = [tbd_url EXCEPT ![w] = NoUrl]
    /\ UNCHANGED <<proc, restart, seed_urls, crashes, save, domain_queues,
                   last_access_time, urls_seen, passed, accepted, since_return,
                   crashed_with>>
    /\ UNCHANGED <<idle_vars, aside_vars>>

\* Worker.run, lines 98-108: download raised; the handler marks tbd_url complete
WorkerFail(w) ==
    /\ proc = "up"
    /\ pc[w] = "download"
    /\ save' = mark_url_complete(save, tbd_url[w])
    /\ pc' = [pc EXCEPT ![w] = "loop"]
    /\ tbd_url' = [tbd_url EXCEPT ![w] = NoUrl]
    /\ UNCHANGED <<proc, restart, seed_urls, crashes, domain_queues, last_access_time,
                   urls_seen, passed, accepted, since_return, crashed_with>>
    /\ UNCHANGED <<idle_vars, aside_vars>>

Next ==
    \/ \E r \in BOOLEAN : Start(r)
    \/ Launch
    \/ Crash
    \/ Tick
    \/ \E w \in Workers : WorkerGet(w)
    \/ \E w \in Workers : WorkerScrape(w)
    \/ \E w \in Workers : WorkerAdd(w)
    \/ \E w \in Workers : WorkerMark(w)
    \/ \E w \in Workers : WorkerFail(w)

Spec == Init /\ [][Next]_vars


(***************************************************************************)
(* The crawl as a fair, unending run.                                      *)
(*                                                                         *)
(* Scheduling.  Every worker thread keeps being scheduled: a worker in the *)
(* loop eventually calls get_tbd_url, a download eventually ends, and the  *)
(* loop over its links eventually ends.  The clock keeps running.  An idle *)
(* worker sleeps 0.1 s between two calls of get_tbd_url (worker.py:59),    *)
(* less than a tick (the delay of 0.5 s is time_delay ticks), so the clock *)
(* does not tick while an idle worker has a ready URL it has not fetched.  *)
(*                                                                         *)
(* The web.  The pages a crawl meets can go on naming URLs it has never    *)
(* seen.  A completed URL takes no further part in a run unless it is      *)
(* passed to add_url again, so FreshUrl lets its name stand from then on   *)
(* for a URL of the same domain that was never seen: the entry and the     *)
(* seen-set member that belonged to the old URL go with the old name.      *)
(***************************************************************************)
FreshUrl(u) ==
    /\ proc = "up"
    /\ Completed(u)
    /\ save' = [h \in (DOMAIN save) \ {get_urlhash(u)} |-> save[h]]
    /\ urls_seen' = urls_seen \ {u}
    /\ passed' = passed \ {u}
    /\ accepted' = accepted \ {u}
    /\ UNCHANGED <<proc, restart, seed_urls, crashes, domain_queues, last_access_time,
                   pc, tbd_url, since_return, crashed_with>>
    /\ UNCHANGED <<idle_vars, aside_vars>>

\* a tick of the clock that the polling of the idle workers allows
TickPolled ==
    /\ \A w \in Workers :
         pc[w] = "loop" => get_tbd_url(domain_queues, last_access_time).url = NoUrl
    /\ Tick

InitFair == Init /\ seed_urls = <<a1, b1>>

NextFair ==
    \/ Start(TRUE)
    \/ Launch
    \/ TickPolled
    \/ \E w \in Workers : WorkerGet(w)
    \/ \E w \in Workers : WorkerScrape(w)
    \/ \E w \in Workers : WorkerAdd(w)
    \/ \E w \in Workers : WorkerMark(w)
    \/ \E w \in Workers : WorkerFail(w)
    \/ \E u \in RawUrls : FreshUrl(u)

SpecFair ==
    /\ InitFair
    /\ [][NextFair]_vars
    /\ WF_vars(Start(TRUE))
    /\ WF_vars(Launch)
    /\ WF_vars(TickPolled)
    /\ \A w \in Workers :
         /\ WF_vars(WorkerGet(w))
         /\ WF_vars(WorkerScrape(w) \/ WorkerFail(w))
         /\ WF_vars(WorkerMark(w))

(***************************************************************************)
(* The worker loop with its idle accounting and its exit.                  *)
(*                                                                         *)
(* The actions above leave out what Worker.run does when get_tbd_url       *)
(* returns None.  Here the worker counts its consecutive None returns and  *)
(* the time since it last obtained a URL, and when both pass their maximum *)
(* it calls _get_total_tbd_count and stops if the result is 0.  The two    *)
(* maxima are scaled down; the counter saturates at its maximum and the    *)
(* idle time just above its maximum, the only values the code compares     *)
(* them with.                                                              *)
(*                                                                         *)
(* _get_total_tbd_count takes no lock (worker.py:44, frontier.py:83-88):   *)
(* it reads one queue size per step while the other workers go on, and its *)
(* dict iterator raises RuntimeError when a domain was added meanwhile.    *)
(***************************************************************************)
\* time() moves on by one tick, for the frontier and for the workers
TickIdle ==
    /\ proc = "up"
    /\ last_access_time' =
         [d \in DOMAIN last_access_time |-> Min(last_access_time[d] + 1, time_delay)]
    /\ since_return' =
         [d \in DOMAIN since_return |-> Min(since_return[d] + 1, time_delay)]
    /\ idle_time' = [w \in Workers |-> Min(idle_time[w] + 1, max_idle_time + 1)]
    /\ UNCHANGED <<proc, restart, seed_urls, crashes, save, domain_queues, urls_seen,
                   pc, tbd_url, passed, accepted, crashed_with>>
    /\ UNCHANGED <<consecutive_none_count, count_at, count, count_len, seen_empty>>
    /\ UNCHANGED aside_vars

\* Worker.run, lines 34-64: get_tbd_url, then the idle test or the reset
WorkerPoll(w) ==
    /\ proc = "up"
    /\ pc[w] = "loop"
    /\ LET r == get_tbd_url(domain_queues, last_access_time)
           n == Min(consecutive_none_count[w] + 1, max_consecutive_none)
           idle == n >= max_consecutive_none /\ idle_time[w] > max_idle_time
       IN
       /\ domain_queues' = r.domain_queues
       /\ last_access_time' = r.last_access_time
       /\ tbd_url' = [tbd_url EXCEPT ![w] = r.url]
       /\ since_return' =
            IF r.url = NoUrl THEN since_return
            ELSE Put(since_return, _get_domain(r.url), 0)
       /\ IF r.url = NoUrl
          THEN /\ consecutive_none_count' = [consecutive_none_count EXCEPT ![w] = n]
               /\ idle_time' = idle_time
               /\ pc' = [pc EXCEPT ![w] = IF idle THEN "count" ELSE "loop"]
               /\ count_at' = [count_at EXCEPT ![w] = IF idle THEN 1 ELSE 0]
               /\ count_len' = [count_len EXCEPT ![w] =
                                  IF idle THEN Len(domain_queues) ELSE 0]
          ELSE /\ consecutive_none_count' = [consecutive_none_count EXCEPT ![w] = 0]
               /\ idle_time' = [idle_time EXCEPT ![w] = 0]
               /\ pc' = [pc EXCEPT ![w] = "download"]
               /\ UNCHANGED <<count_at, count_len>>
    /\ UNCHANGED <<proc, restart, seed_urls, crashes, save, urls_seen,
                   passed, accepted, crashed_with, count>>
    /\ seen_empty' =
         [v \in Workers |->
            /\ pc'[v] = "count"
            /\ \/ v # w /\ seen_empty[v]
               \/ _get_total_tbd_count(domain_queues') = 0]
    /\ UNCHANGED aside_vars

\* _get_total_tbd_count, line 87: count += queue.qsize() for the next queue
WorkerCountStep(w) ==
    /\ proc = "up"
    /\ pc[w] = "count"
    /\ Len(domain_queues) = count_len[w]
    /\ count_at[w] <= count_len[w]
    /\ count' = [count EXCEPT ![w] = @ + Len(domain_queues[count_at[w]].queue)]
    /\ count_at' = [count_at EXCEPT ![w] = @ + 1]
    /\ UNCHANGED <<frontier_vars, consecutive_none_count, idle_time, count_len, seen_empty>>
    /\ UNCHANGED aside_vars

\* WorkerCountEnd that never stops the worker
WorkerCountEnd_nobreak(w) ==
    /\ proc = "up"
    /\ pc[w] = "count"
    /\ Len(domain_queues) = count_len[w]
    /\ count_at[w] > count_len[w]
    /\ pc' = [pc EXCEPT ![w] = "loop"]
    /\ consecutive_none_count' = [consecutive_none_count EXCEPT ![w] = 0]
    /\ count_at' = [count_at EXCEPT ![w] = 0]
    /\ count' = [count EXCEPT ![w] = 0]
    /\ count_len' = [count_len EXCEPT ![w] = 0]
    /\ seen_empty' = [seen_empty EXCEPT ![w] = FALSE]
    /\ UNCHANGED <<proc, restart, seed_urls, crashes, save, domain_queues,
                   last_access_time, urls_seen, tbd_url, passed, accepted,
                   since_return, crashed_with, idle_time>>
    /\ UNCHANGED aside_vars

\* Worker.run, lines 44-56: _get_total_tbd_count has returned; break if the
\* total is 0, else reset the counter and continue
WorkerCountEnd(w) ==
    /\ proc = "up"
    /\ pc[w] = "count"
    /\ Len(domain_queues) = count_len[w]
    /\ count_at[w] > count_len[w]
    /\ IF count[w] = 0
       THEN /\ pc' = [pc EXCEPT ![w] = "stopped"]
            /\ UNCHANGED consecutive_none_count
       ELSE /\ pc' = [pc EXCEPT ![w] = "loop"]
            /\ consecutive_none_count' = [consecutive_none_count EXCEPT ![w] = 0]
    /\ count_at' = [count_at EXCEPT ![w] = 0]
    /\ count' = [count EXCEPT ![w] = 0]
    /\ count_len' = [count_len EXCEPT ![w] = 0]
    /\ seen_empty' = [seen_empty EXCEPT ![w] = FALSE]
    /\ UNCHANGED <<proc, restart, seed_urls, crashes, save, domain_queues,
                   last_access_time, urls_seen, tbd_url, passed, accepted,
                   since_return, crashed_with, idle_time>>
    /\ UNCHANGED aside_vars

\* _get_total_tbd_count, line 86: a domain was added since the iteration began,
\* the iterator raises RuntimeError and the handler of lines 98-108 takes the
\* worker back to the loop.  tbd_url is a local of run and holds None, so the
\* handler calls mark_url_complete(None); the entry of no URL is written
WorkerCountRaise(w) ==
    /\ proc = "up"
    /\ pc[w] = "count"
    /\ Len(domain_queues) # count_len[w]
    /\ pc' = [pc EXCEPT ![w] = "loop"]
    /\ count_at' = [count_at EXCEPT ![w] = 0]
    /\ count' = [count EXCEPT ![w] = 0]
    /\ count_len' = [count_len EXCEPT ![w] = 0]
    /\ seen_empty' = [seen_empty EXCEPT ![w] = FALSE]
    /\ UNCHANGED <<proc, restart, seed_urls, crashes, save, domain_queues,
                   last_access_time, urls_seen, tbd_url, passed, accepted,
                   since_return, crashed_with, consecutive_none_count, idle_time>>
    /\ UNCHANGED aside_vars

\* an exception that leaves Worker.run: the thread ends
WorkerRaise_exit(w) ==
    /\ proc = "up"
    /\ pc[w] \in {"download", "add"}
    /\ pc' = [pc EXCEPT ![w] = "stopped"]
    /\ tbd_url' = [tbd_url EXCEPT ![w] = NoUrl]
    /\ UNCHANGED <<proc, restart, seed_urls, crashes, save, domain_queues,
                   last_access_time, urls_seen, passed, accepted, since_return,
                   crashed_with>>
    /\ UNCHANGED <<idle_vars, aside_vars>>

\* Worker.run, lines 87-90 and 105-108: mark_url_complete raises before it has
\* written; the exception is caught and the worker goes on with the loop
WorkerRaise(w) ==
    /\ proc = "up"
    /\ pc[w] \in {"download", "add"}
    /\ pc' = [pc EXCEPT ![w] = "loop"]
    /\ tbd_url' = [tbd_url EXCEPT ![w] = NoUrl]
    /\ UNCHANGED <<proc, restart, seed_urls, crashes, save, domain_queues,
                   last_access_time, urls_seen, passed, accepted, since_return,
                   crashed_with>>
    /\ UNCHANGED <<idle_vars, aside_vars>>

InitIdle == seed_urls \in {<<>>, <<a1>>} /\ InitState

NextIdle ==
    \/ Start(TRUE)
    \/ Launch
    \/ TickIdle
    \/ \E w \in Workers : WorkerPoll(w)
    \/ \E w \in Workers : WorkerCountStep(w)
    \/ \E w \in Workers : WorkerCountEnd(w)
    \/ \E w \in Workers : WorkerCountRaise(w)
    \/ \E w \in Workers : WorkerScrape(w)
    \/ \E w \in Workers : WorkerAdd(w)
    \/ \E w \in Workers : WorkerMark(w)
    \/ \E w \in Workers : WorkerFail(w)
    \/ \E w \in Workers : WorkerRaise(w)
    \/ \E u \in RawUrls : FreshUrl(u)

\* the threads keep being scheduled and the clock keeps running
SpecIdle ==
    /\ InitIdle
    /\ [][NextIdle]_vars
    /\ WF_vars(Start(TRUE))
    /\ WF_vars(Launch)
    /\ WF_vars(TickIdle)
    /\ \A w \in Workers :
         /\ WF_vars(WorkerPoll(w))
         /\ WF_vars(WorkerCountStep(w) \/ WorkerCountEnd(w) \/ WorkerCountRaise(w))

\* The crawl with no seed and an empty store.  No URL ever exists, so no worker
\* ever holds one and no domain is ever added: the workers only poll, wait and
\* count, and the steps that need a URL or a queue are never enabled.
InitEmpty == Init /\ seed_urls = <<>>

NextEmpty ==
    \/ \E r \in BOOLEAN : Start(r)
    \/ Launch
    \/ TickIdle
    \/ \E w \in Workers : WorkerPoll(w)
    \/ \E w \in Workers : WorkerCountEnd(w)

SpecEmpty ==
    /\ InitEmpty
    /\ [][NextEmpty]_vars
    /\ WF_vars(\E r \in BOOLEAN : Start(r))
    /\ WF_vars(Launch)
    /\ WF_vars(TickIdle)
    /\ \A w \in Workers : WF_vars(WorkerPoll(w)) /\ WF_vars(WorkerCountEnd(w))

(***************************************************************************)
(* One host with several URLs queued from the start, and an observer that  *)
(* counts the URLs of that host get_tbd_url returns and the ticks since    *)
(* the first of them.                                                      *)
(***************************************************************************)
a3 == Url("https", <<"ics", "uci", "edu">>, "/e", "")

\* config.seed_urls: N URLs of one host
HostSeeds == <<a1, a2, a3>>

\* the host of the seeds
Host == LowerNetloc(a1.netloc)

\* the longest time the claim speaks of: (N - 1) delays
HostSpan == (Len(HostSeeds) - 1) * time_delay

\* time() moves on by one tick; the observer's clock runs since the first return
HostTick ==
    /\ proc = "up"
    /\ last_access_time' =
         [d \in DOMAIN last_access_time |-> Min(last_access_time[d] + 1, time_delay)]
    /\ since_return' =
         [d \in DOMAIN since_return |-> Min(since_return[d] + 1, time_delay)]
    /\ elapsed' = IF returned > 0 THEN Min(elapsed + 1, HostSpan) ELSE 0
    /\ UNCHANGED <<proc, restart, seed_urls, crashes, save, domain_queues, urls_seen,
                   pc, tbd_url, passed, accepted, crashed_with>>
    /\ UNCHANGED <<idle_vars, returned, dup_vars, valid_vars, trap_vars, lock_vars, mark_vars, scrape_vars>>

\* Worker.run, lines 34-64: tbd_url = self.frontier.get_tbd_url(), observed
HostGet(w) ==
    /\ proc = "up"
    /\ pc[w] = "loop"
    /\ LET r == get_tbd_url(domain_queues, last_access_time) IN
       /\ domain_queues' = r.domain_queues
       /\ last_access_time' = r.last_access_time
       /\ tbd_url' = [tbd_url EXCEPT ![w] = r.url]
       /\ pc' = [pc EXCEPT ![w] = IF r.url = NoUrl THEN "loop" ELSE "download"]
       /\ since_return' =
            IF r.url = NoUrl THEN since_return
            ELSE Put(since_return, _get_domain(r.url), 0)
       /\ returned' =
            IF r.url # NoUrl /\ LowerNetloc(r.url.netloc) = Host
            THEN returned + 1 ELSE returned
    /\ UNCHANGED <<proc, restart, seed_urls, crashes, save, urls_seen,
                   passed, accepted, crashed_with>>
    /\ UNCHANGED <<idle_vars, elapsed, dup_vars, valid_vars, trap_vars, lock_vars, mark_vars, scrape_vars>>

InitHost == seed_urls = HostSeeds /\ InitState

NextHost ==
    \/ \E r \in BOOLEAN : Start(r)
    \/ Launch
    \/ HostTick
    \/ \E w \in Workers : HostGet(w)
    \/ \E w \in Workers : WorkerScrape(w)
    \/ \E w \in Workers : WorkerAdd(w)
    \/ \E w \in Workers : WorkerMark(w)
    \/ \E w \in Workers : WorkerFail(w)

SpecHost == InitHost /\ [][NextHost]_vars

(***************************************************************************)
(* The duplicate detector, scraper.is_duplicate, called by several workers *)
(* at once.  A call takes duplicate_lock twice: once to look its digest up *)
(* in seen_exact_hashes and add it, once to compare its simhash with the   *)
(* ring seen_simhashes and append it; other calls can run in between.      *)
(*                                                                         *)
(* A simhash is the set of the bit positions (0..63) that are set in it,   *)
(* so that the Hamming distance is computed.  compute_simhash is not       *)
(* modelled: a text comes with its digest and its simhash.                 *)
(***************************************************************************)
SIMHASH_THRESHOLD == 10

\* the bits of hash1 that hash2 lacks, in place of the bits that differ
hamming_distance_one_sided(hash1, hash2) == Cardinality(hash1 \ hash2)

\* bin(hash1 ^ hash2).count('1')
hamming_distance(hash1, hash2) == Cardinality((hash1 \ hash2) \cup (hash2 \ hash1))

T1  == Text(TRUE, "m1", {})
\* another text with the digest of T1
T1c == Text(TRUE, "m1", 0..19)
\* a text near T1: 5 bits differ
T2  == Text(TRUE, "m2", 0..4)
T3  == Text(TRUE, "m3", 20..39)
T4  == Text(TRUE, "m4", 40..63)
\* a text of fewer than 100 characters
Ts  == Text(FALSE, "m5", 0..9)

\* the calls is_duplicate(text_content, url) a crawl can make
Pages ==
    {<<T1, a1>>, <<T1, a2>>, <<T1c, b1>>, <<T2, a2>>, <<T3, b1>>, <<T4, a1>>, <<Ts, a2>>}

\* list.append in place of the append of a deque(maxlen=SIMHASH_WINDOW)
deque_append_nomaxlen(ring, x) == Append(ring, x)

\* seen_simhashes.append(x) on a deque(maxlen=SIMHASH_WINDOW)
deque_append(ring, x) ==
    IF Len(ring) >= SIMHASH_WINDOW THEN Append(Tail(ring), x) ELSE Append(ring, x)

\* the first critical section without seen_exact_hashes.add
exact_section_noadd(hashes, content_hash) ==
    [dup |-> content_hash \in hashes, hashes |-> hashes]

\* is_duplicate, lines 127-131: the look-up and the insertion, under the lock
exact_section(hashes, content_hash) ==
    [dup |-> content_hash \in hashes, hashes |-> hashes \cup {content_hash}]

\* is_duplicate, lines 122-131: the length test and the exact check
IsDuplicateExact(w, page) ==
    /\ dup_pc[w] = "idle"
    /\ LET text_content == page[1]
           content_hash == text_content.md5
           r == exact_section(seen_exact_hashes, content_hash)
           exact == text_content.long /\ r.dup
       IN
       /\ IF ~text_content.long
          THEN /\ dup_result' = [dup_result EXCEPT ![w] = <<TRUE, "too_short">>]
               /\ UNCHANGED <<seen_exact_hashes, dup_pc, dup_text>>
          ELSE /\ seen_exact_hashes' = r.hashes
               /\ IF r.dup
                  THEN /\ dup_result' = [dup_result EXCEPT ![w] = <<TRUE, "exact">>]
                       /\ UNCHANGED <<dup_pc, dup_text>>
                  ELSE /\ dup_result' = [dup_result EXCEPT ![w] = NoResult]
                       /\ dup_pc' = [dup_pc EXCEPT ![w] = "similar"]
                       /\ dup_text' = [dup_text EXCEPT ![w] = page]
       /\ checked' = checked \cup {content_hash}
       /\ checked_long' =
            IF text_content.long THEN checked_long \cup {content_hash} ELSE checked_long
       /\ second_not_exact' =
            IF content_hash \in checked /\ ~exact
            THEN second_not_exact \cup {content_hash} ELSE second_not_exact
       /\ second_long_not_exact' =
            IF content_hash \in checked_long /\ text_content.long /\ ~exact
            THEN second_long_not_exact \cup {content_hash} ELSE second_long_not_exact
    /\ UNCHANGED <<seen_simhashes, frontier_vars, idle_vars, host_vars, valid_vars, trap_vars, lock_vars, mark_vars, scrape_vars>>

\* the loop of is_duplicate that looks at the oldest entry of the ring only
similar_to_ring_oldest(ring, content_simhash) ==
    /\ ring # <<>>
    /\ hamming_distance(content_simhash, ring[1][1]) <= SIMHASH_THRESHOLD

\* is_duplicate, lines 136-139: the loop over seen_simhashes
similar_to_ring(ring, content_simhash) ==
    \E i \in 1..Len(ring) :
        hamming_distance(content_simhash, ring[i][1]) <= SIMHASH_THRESHOLD

\* is_duplicate, lines 133-142: the comparison with the ring and the append
IsDuplicateSimilar(w) ==
    /\ dup_pc[w] = "similar"
    /\ LET content_simhash == dup_text[w][1].simhash
           url == dup_text[w][2]
       IN
       IF similar_to_ring(seen_simhashes, content_simhash)
       THEN /\ dup_result' = [dup_result EXCEPT ![w] = <<TRUE, "similar">>]
            /\ UNCHANGED seen_simhashes
       ELSE /\ dup_result' = [dup_result EXCEPT ![w] = <<FALSE, "None">>]
            /\ seen_simhashes' = deque_append(seen_simhashes, <<content_simhash, url>>)
    /\ dup_pc' = [dup_pc EXCEPT ![w] = "idle"]
    /\ dup_text' = [dup_text EXCEPT ![w] = <<NoText, NoUrl>>]
    /\ UNCHANGED <<seen_exact_hashes, checked, checked_long, second_not_exact,
                   second_long_not_exact>>
    /\ UNCHANGED <<frontier_vars, idle_vars, host_vars, valid_vars, trap_vars, lock_vars, mark_vars, scrape_vars>>

InitDup == seed_urls = <<>> /\ InitState

NextDup ==
    \/ \E w \in Workers : \E page \in Pages : IsDuplicateExact(w, page)
    \/ \E w \in Workers : IsDuplicateSimilar(w)

SpecDup == InitDup /\ [][NextDup]_vars

(***************************************************************************)
(* is_duplicate on texts of different digests whose simhashes are equal,   *)
(* SIMHASH_THRESHOLD bits apart, and one bit more                          *)
(***************************************************************************)
\* a text with the simhash of T1 and another digest
T0  == Text(TRUE, "m6", {})
\* a text SIMHASH_THRESHOLD bits from T1
T10 == Text(TRUE, "m7", 0..(SIMHASH_THRESHOLD - 1))
\* a text SIMHASH_THRESHOLD + 1 bits from T1 and one bit from T10
T11 == Text(TRUE, "m8", 0..SIMHASH_THRESHOLD)

RingPages == {<<T1, a1>>, <<T0, a2>>, <<T10, b1>>, <<T11, a2>>, <<T4, a1>>}

InitRing == seed_urls = <<>> /\ InitState

NextRing ==
    \/ \E w \in Workers : \E page \in RingPages : IsDuplicateExact(w, page)
    \/ \E w \in Workers : IsDuplicateSimilar(w)

SpecRing == InitRing /\ [][NextRing]_vars

(***************************************************************************)
(* scraper.is_valid with the reason it logs, on URLs of many hosts.  The   *)
(* URLs have a short path and no query, so that the checks after the third *)
(* accept them.                                                            *)
(***************************************************************************)
\* the reason of the first check of is_valid that rejects url, "" if none does
is_valid_reason(url) ==
    LET netloc == LowerNetloc(url.netloc) IN
    IF url.scheme \notin {"http", "https"} THEN "bad_scheme"
    ELSE IF ~ \E d \in VALID_DOMAINS : HostMatches(netloc, d) THEN "bad_domain"
    ELSE IF \E b \in blocked : HostMatches(netloc, b) THEN "blocked_domain"
    ELSE ""

\* log_rejection: rejection_stats[reason] += 1
log_rejection(stats, reason) ==
    [stats EXCEPT ![reason] = Min(@ + 1, MaxRejections)]

\* hosts: the allowed domains and hosts under them, every deny-listed domain
\* and a host under it, and hosts that are neither
ValidHosts ==
    VALID_DOMAINS
    \cup {<<"www">> \o d : d \in VALID_DOMAINS}
    \cup blocked
    \cup {<<"www">> \o b : b \in blocked}
    \cup {<<"www", "uci", "edu">>, <<"physics", "ics", "uci", "edu">>,
          <<"ICS", "uci", "edu">>}

ValidInputs == {Url(s, h, "/x", "") : s \in {"https", "http", "ftp"}, h \in ValidHosts}

\* a call of is_valid(url)
IsValid(url) ==
    /\ checked_url' = url
    /\ rejection_reason' = is_valid_reason(url)
    /\ rejection_stats' =
         IF is_valid_reason(url) = "" THEN rejection_stats
         ELSE log_rejection(rejection_stats, is_valid_reason(url))
    /\ UNCHANGED <<frontier_vars, idle_vars, host_vars, dup_vars, trap_vars, lock_vars, mark_vars, scrape_vars>>

InitValid == seed_urls = <<>> /\ InitState

NextValid == \E url \in ValidInputs : IsValid(url)

SpecValid == InitValid /\ [][NextValid]_vars

(***************************************************************************)
(* Strings.  From here on a URL is the string itself, so that urlparse,    *)
(* the regular expressions, parse_qs and int() are computed on its         *)
(* characters.                                                             *)
(***************************************************************************)
\* s[i:i+len(p)] == p, with i counted from 1
StartsAt(s, i, p) == i + Len(p) - 1 <= Len(s) /\ SubSeq(s, i, i + Len(p) - 1) = p

\* p in s
Contains(s, p) == \E i \in 1..Len(s) : StartsAt(s, i, p)

\* s.endswith(p)
EndsWith(s, p) == Len(s) >= Len(p) /\ SubSeq(s, Len(s) - Len(p) + 1, Len(s)) = p

\* the first place from i on where one of the characters of cs stands,
\* Len(s) + 1 if there is none
FindAny(s, i, cs) ==
    LET hits == {k \in i..Len(s) : SubSeq(s, k, k) \in cs} IN
    IF hits = {} THEN Len(s) + 1 ELSE CHOOSE k \in hits : \A j \in hits : k <= j

\* s.find(p) counted from 1, 0 if p is not in s
Find(s, p) ==
    LET hits == {k \in 1..Len(s) : StartsAt(s, k, p)} IN
    IF hits = {} THEN 0 ELSE CHOOSE k \in hits : \A j \in hits : k <= j

\* s.rfind(p) counted from 1, 0 if p is not in s
RFind(s, p) ==
    LET hits == {k \in 1..Len(s) : StartsAt(s, k, p)} IN
    IF hits = {} THEN 0 ELSE CHOOSE k \in hits : \A j \in hits : k >= j

\* s.split(c) for a single character c
RECURSIVE split(_, _)
split(s, c) ==
    LET k == FindAny(s, 1, {c}) IN
    IF k > Len(s) THEN <<s>>
    ELSE <<SubSeq(s, 1, k - 1)>> \o split(SubSeq(s, k + 1, Len(s)), c)

\* c.lower() for an ASCII character
lower_char(c) ==
    LET k == Find("ABCDEFGHIJKLMNOPQRSTUVWXYZ", c) IN
    IF k = 0 THEN c ELSE SubSeq("abcdefghijklmnopqrstuvwxyz", k, k)

\* str.lower(), by halves
RECURSIVE str_lower(_)
str_lower(s) ==
    IF s = "" THEN ""
    ELSE IF Len(s) = 1 THEN lower_char(s)
    ELSE str_lower(SubSeq(s, 1, Len(s) \div 2)) \o str_lower(SubSeq(s, Len(s) \div 2 + 1, Len(s)))

Digits == {"0", "1", "2", "3", "4", "5", "6", "7", "8", "9"}

digit_value(c) ==
    CASE c = "0" -> 0 [] c = "1" -> 1 [] c = "2" -> 2 [] c = "3" -> 3 [] c = "4" -> 4
      [] c = "5" -> 5 [] c = "6" -> 6 [] c = "7" -> 7 [] c = "8" -> 8 [] c = "9" -> 9

\* int(s) succeeds: an optional sign and one or more digits
is_int(s) ==
    LET body == IF s # "" /\ SubSeq(s, 1, 1) \in {"-", "+"} THEN SubSeq(s, 2, Len(s)) ELSE s IN
    body # "" /\ \A i \in 1..Len(body) : SubSeq(body, i, i) \in Digits

RECURSIVE digits_value(_)
digits_value(s) ==
    IF s = "" THEN 0
    ELSE 10 * digits_value(SubSeq(s, 1, Len(s) - 1)) + digit_value(SubSeq(s, Len(s), Len(s)))

\* int(s) where is_int(s)
int(s) ==
    IF SubSeq(s, 1, 1) = "-" THEN 0 - digits_value(SubSeq(s, 2, Len(s)))
    ELSE IF SubSeq(s, 1, 1) = "+" THEN digits_value(SubSeq(s, 2, Len(s)))
    ELSE digits_value(s)

\* str(n) for a natural number n
digit_char(d) == SubSeq("0123456789", d + 1, d + 1)

RECURSIVE str(_)
str(n) == IF n < 10 THEN digit_char(n) ELSE str(n \div 10) \o digit_char(n % 10)

\* c * n, by halves
RECURSIVE repeat(_, _)
repeat(c, n) ==
    IF n = 0 THEN ""
    ELSE IF n = 1 THEN c
    ELSE repeat(c, n \div 2) \o repeat(c, n - n \div 2)

(***************************************************************************)
(* urllib.parse                                                            *)
(***************************************************************************)
\* urlparse(url): the scheme is what stands before the first colon, in lower
\* case, if none of / ? # stands before it; the netloc follows // and ends
\* before the first of / ? #; the fragment follows the first #, the query
\* the first ? before it
urlparse(url) ==
    LET from_query(scheme, netloc, r3, fragment) ==
            LET q == FindAny(r3, 1, {"?"}) IN
            [scheme   |-> scheme,
             netloc   |-> netloc,
             path     |-> SubSeq(r3, 1, q - 1),
             query    |-> SubSeq(r3, q + 1, Len(r3)),
             fragment |-> fragment]
        from_fragment(scheme, netloc, r2) ==
            LET h == FindAny(r2, 1, {"#"}) IN
            from_query(scheme, netloc, SubSeq(r2, 1, h - 1), SubSeq(r2, h + 1, Len(r2)))
        from_netloc(scheme, r1) ==
            LET hasN == StartsAt(r1, 1, "//")
                e    == FindAny(r1, 3, {"/", "?", "#"})
            IN  from_fragment(scheme,
                              IF hasN THEN SubSeq(r1, 3, e - 1) ELSE "",
                              IF hasN THEN SubSeq(r1, e, Len(r1)) ELSE r1)
        c    == Find(url, ":")
        hasS == c > 1 /\ FindAny(url, 1, {"/", "?", "#"}) > c
    IN  from_netloc(IF hasS THEN str_lower(SubSeq(url, 1, c - 1)) ELSE "",
                    IF hasS THEN SubSeq(url, c + 1, Len(url)) ELSE url)

\* parse_qs(query) as the sequence of its <<name, value>> pairs: the fields
\* between the & signs, each split at its first =, those with a blank value
\* dropped.  The queries of the model hold no % and no +, which
\* parse_qs would decode.
qs_pair(f) ==
    LET k == FindAny(f, 1, {"="}) IN <<SubSeq(f, 1, k - 1), SubSeq(f, k + 1, Len(f))>>

parse_qsl(query) ==
    LET fields == split(query, "&")
        pairs  == [i \in 1..Len(fields) |-> qs_pair(fields[i])]
    IN  SelectSeq(pairs, LAMBDA p : p[2] # "")

\* parse_qs(query).keys()
qs_keys(query) == {p[1] : p \in Range(parse_qsl(query))}

\* parse_qs(query)[param][0] for a param in parse_qs(query)
qs_first(query, param) ==
    LET vals == SelectSeq(parse_qsl(query), LAMBDA p : p[1] = param) IN vals[1][2]

(***************************************************************************)
(* scraper.py: the pattern lists.  Each regular expression is written out  *)
(* as the strings it matches; r'\\d' in the source is the regular          *)
(* expression of a backslash followed by the letter d.                     *)
(***************************************************************************)
MAX_PATH_DEPTH == 12

\* re.search(p, url.lower()) for some p in CALENDAR_PATTERNS
is_calendar_or_event(url) ==
    LET u == str_lower(url) IN
    \/ \E p \in {"/calendar", "/event/", "/events/", "/event-calendar", "/ical",
                 "?calendar", "&calendar", "?event", "&event",
                 "?date=", "&date=", "?month=", "&month=", "?year=", "&year=",
                 "/\\dddd/\\dd/\\dd"} : Contains(u, p)
    \* r'/\\.ics$': a slash, a backslash, any character, "ics", the end
    \/ Len(u) >= 6 /\ EndsWith(u, "ics") /\ SubSeq(u, Len(u) - 5, Len(u) - 4) = "/\\"

\* re.search(p, url.lower()) for some p in TRAP_PATTERNS
is_known_trap(url) ==
    LET u == str_lower(url) IN
    \E p \in {"/wp-admin", "/wp-login", "/login", "/logout", "/signin", "/signout",
              "/register", "/signup", "/user/", "/account", "/profile",
              "/dashboard", "/admin"} : Contains(u, p)

\* re.search(p, url.lower()) for some p in LEGITIMATE_PATTERNS
is_legitimate_pattern(url) ==
    LET u == str_lower(url) IN
    \E p \in {"/wiki/", "/archive/", "/docs/", "/pub/", "/repository/", "/faculty/",
              "/course/", "/courses/", "/research/", "/project/", "/projects/",
              "/publication/", "/publications/"} : Contains(u, p)

\* re.sub(r'\\d+', 'N', s): every backslash followed by one or more letters d
\* becomes N
RECURSIVE sub_backslash_d(_)
sub_backslash_d(s) ==
    LET k == Find(s, "\\d") IN
    IF k = 0 THEN s
    ELSE LET ends == {j \in (k + 1)..Len(s) :
                         \A i \in (k + 1)..j : SubSeq(s, i, i) = "d"}
             e    == CHOOSE j \in ends : \A i \in ends : j >= i
         IN  SubSeq(s, 1, k - 1) \o "N" \o sub_backslash_d(SubSeq(s, e + 1, Len(s)))

\* re.sub(pat, rep, s) for a pattern that matches the one string pat
RECURSIVE sub_literal(_, _, _)
sub_literal(pat, rep, s) ==
    LET k == Find(s, pat) IN
    IF k = 0 THEN s
    ELSE SubSeq(s, 1, k - 1) \o rep \o sub_literal(pat, rep, SubSeq(s, k + Len(pat), Len(s)))

\* get_url_pattern(url).  The sorted query keys joined by & name the set of
\* the keys, and no key holds an &: the pattern keeps the set.
get_url_pattern(url) ==
    LET pattern(netloc, path, query) ==
            IF is_legitimate_pattern(url) THEN <<netloc \o path>>
            ELSE <<netloc \o path, "?", IF query # "" THEN qs_keys(query) ELSE {}>>
        of(parsed) ==
            pattern(parsed.netloc,
                    sub_literal("\\dddd-\\dd-\\dd", "DATE", sub_backslash_d(parsed.path)),
                    parsed.query)
    IN  of(urlparse(url))

(***************************************************************************)
(* scraper.is_url_trap and scraper.is_valid on URL strings.  The two       *)
(* counters are maps from the keys they have been asked for; a key that    *)
(* is absent counts 0, as in a defaultdict(int).                           *)
(***************************************************************************)
\* the limits written as numbers in is_url_trap
max_depth_legitimate == 15
max_segment_repeat == 3
max_page == 200
max_query_length == 200
min_filter_params == 4

\* '.'.join(labels)
RECURSIVE dotted(_)
dotted(labels) ==
    IF Len(labels) = 1 THEN labels[1] ELSE labels[1] \o "." \o dotted(Tail(labels))

\* [p for p in parsed.path.split('/') if p]
path_parts(path) == SelectSeq(split(path, "/"), LAMBDA p : p # "")

\* rules 1 and 2 of is_url_trap: path depth, repeating segments
trap_by_path(url) ==
    LET by(parts, legitimate) ==
            \/ Len(parts) > IF legitimate THEN max_depth_legitimate ELSE MAX_PATH_DEPTH
            \/ /\ ~ legitimate
               /\ \E p \in Range(parts) :
                      Cardinality({i \in 1..Len(parts) : parts[i] = p}) > max_segment_repeat
    IN  by(path_parts(urlparse(url).path), is_legitimate_pattern(url))

\* max_repeats and max_same of is_url_trap(url)
pattern_limit(url) == IF is_legitimate_pattern(url) THEN max_repeats_legitimate ELSE max_repeats

path_limit(url) == IF is_legitimate_pattern(url) THEN max_same_legitimate ELSE max_same

\* the words rule 6 of is_url_trap looks for that the query holds
filter_words(query) ==
    {p \in {"sort", "order", "filter", "view", "display"} : Contains(str_lower(query), p)}

\* rules 4 to 6 with a page number rejected from the limit on
trap_by_query_at_limit(url) ==
    LET by(query) ==
            \/ /\ query # ""
               /\ \E param \in {"page", "p", "offset", "start"} :
                      /\ param \in qs_keys(query)
                      /\ is_int(qs_first(query, param))
                      /\ int(qs_first(query, param)) >= max_page
            \/ Len(query) > max_query_length
            \/ query # "" /\ Cardinality(filter_words(query)) >= min_filter_params
    IN  by(urlparse(url).query)

\* rules 4, 5 and 6 of is_url_trap: pagination, query length, filter words
trap_by_query(url) ==
    LET by(query) ==
            \/ /\ query # ""
               /\ \E param \in {"page", "p", "offset", "start"} :
                      /\ param \in qs_keys(query)
                      /\ is_int(qs_first(query, param))
                      /\ int(qs_first(query, param)) > max_page
            \/ Len(query) > max_query_length
            \/ query # "" /\ Cardinality(filter_words(query)) >= min_filter_params
    IN  by(urlparse(url).query)

\* the key of rule 7: domain_path_counter[parsed.netloc][parsed.path]
path_key(url) ==
    LET key(parsed) == <<parsed.netloc, parsed.path>> IN key(urlparse(url))

INVALID_EXTENSIONS ==
    {"pdf", "doc", "docx", "ppt", "pptx", "xls", "xlsx", "txt", "rtf", "odt", "ods",
     "odp", "zip", "rar", "tar", "gz", "7z", "bz2", "jpg", "jpeg", "png", "gif", "bmp",
     "svg", "ico", "webp", "mp4", "avi", "mov", "mpg", "mpeg", "flv", "mp3", "wav",
     "wma", "aac", "css", "js", "json", "xml", "rss", "atom", "csv", "lif", "mat",
     "dat", "rdata", "rds", "arff", "weka", "sav", "pkl", "pickle", "log", "bak", "tmp"}

ALLOWED_EXTENSIONS == {"html", "htm", "php", "asp", "aspx", "jsp", "shtml", "xhtml"}

\* the checks 1 to 6, had the known traps been looked for before the calendars
reason_before_trap_traps_first(url) ==
    LET reason(scheme, netloc) ==
            IF scheme \notin {"http", "https"} THEN "bad_scheme"
            ELSE IF ~ \E d \in VALID_DOMAINS :
                        netloc = dotted(d) \/ EndsWith(netloc, "." \o dotted(d))
                 THEN "bad_domain"
            ELSE IF \E b \in blocked : netloc = dotted(b) \/ EndsWith(netloc, "." \o dotted(b))
                 THEN "blocked_domain"
            ELSE IF Len(url) > MAX_URL_LENGTH THEN "url_too_long"
            ELSE IF is_known_trap(url) THEN "known_trap"
            ELSE IF is_calendar_or_event(url) THEN "calendar_event"
            ELSE ""
        of(parsed) == reason(parsed.scheme, str_lower(parsed.netloc))
    IN  of(urlparse(url))

\* checks 1 to 6 of is_valid: the reason of the first that rejects, "" if none
reason_before_trap(url) ==
    LET reason(scheme, netloc) ==
            IF scheme \notin {"http", "https"} THEN "bad_scheme"
            ELSE IF ~ \E d \in VALID_DOMAINS :
                        netloc = dotted(d) \/ EndsWith(netloc, "." \o dotted(d))
                 THEN "bad_domain"
            ELSE IF \E b \in blocked : netloc = dotted(b) \/ EndsWith(netloc, "." \o dotted(b))
                 THEN "blocked_domain"
            ELSE IF Len(url) > MAX_URL_LENGTH THEN "url_too_long"
            ELSE IF is_calendar_or_event(url) THEN "calendar_event"
            ELSE IF is_known_trap(url) THEN "known_trap"
            ELSE ""
        of(parsed) == reason(parsed.scheme, str_lower(parsed.netloc))
    IN  of(urlparse(url))

\* check 8: ext of path_lower.rsplit('.', 1)[1].split('/')[0].split('?')[0]
path_ext(url) ==
    LET ext(path_lower) ==
            LET dot == RFind(path_lower, ".") IN
            IF dot = 0 THEN ""
            ELSE split(split(SubSeq(path_lower, dot + 1, Len(path_lower)), "/")[1], "?")[1]
    IN  ext(str_lower(urlparse(url).path))

\* checks 8 to 10 of is_valid: the reason of the first that rejects, "" if none
reason_after_trap(url) ==
    LET reason(ext, query_lower) ==
            IF ext # "" /\ ext \notin ALLOWED_EXTENSIONS /\ ext \in INVALID_EXTENSIONS
            THEN "ext_" \o ext
            ELSE IF /\ query_lower # ""
                    /\ \E b \in {"format=txt", "format=pdf", "format=csv", "export=txt",
                                 "export=pdf", "download="} : Contains(query_lower, b)
                 THEN "format_param"
            ELSE IF \E x \in {"/search?", "?search=", "/print/", "?print="} :
                        Contains(str_lower(url), x)
                 THEN "action"
            ELSE ""
    IN  reason(path_ext(url), str_lower(urlparse(url).query))

(***************************************************************************)
(* The URL strings of the model.  DigitUrls are stat.uci.edu/x/1, /x/2,    *)
(* ..., one more than the pattern rule lets through; BackslashUrls end in  *)
(* a backslash and letters d, which is what r'\\d+' matches.               *)
(***************************************************************************)
DigitUrls == {"https://stat.uci.edu/x/" \o str(n) : n \in 1..(max_repeats + 1)}

BackslashUrls ==
    {"https://stat.uci.edu/x/\\d", "https://stat.uci.edu/x/\\dd",
     "https://stat.uci.edu/x/\\ddd"}

PatternInputs == DigitUrls \cup BackslashUrls

\* URLs that each check of is_valid rejects, alone and two at a time, and
\* URLs with a page number at, above and below the limit of rule 4
AdmitInputs ==
    {"https://stat.uci.edu/news?page=250", "https://stat.uci.edu/news?page=201",
     "https://stat.uci.edu/news?page=200", "https://stat.uci.edu/news?p=abc&offset=300",
     "https://stat.uci.edu/news?start=201", "https://stat.uci.edu/login?page=250",
     "https://stat.uci.edu/news?page=250&date=1", "ftp://stat.uci.edu/news?page=250",
     "ftp://physics.uci.edu/x", "https://physics.uci.edu/x",
     "https://physics.uci.edu/" \o repeat("a", MAX_URL_LENGTH),
     "https://ics.uci.edu/login/" \o repeat("a", MAX_URL_LENGTH),
     "https://ics.uci.edu/" \o repeat("a", MAX_URL_LENGTH - 19),
     "https://ics.uci.edu/" \o repeat("a", MAX_URL_LENGTH - 20),
     "https://ics.uci.edu/login/calendar", "https://ics.uci.edu/login",
     "https://ics.uci.edu/paper.pdf", "https://ics.uci.edu/paper.pdf?format=pdf",
     "https://ics.uci.edu/search?format=pdf", "https://ics.uci.edu/search?q=1",
     "https://ics.uci.edu/a/a/a/a.pdf", "https://ics.uci.edu/courses/cs101/"}

\* URLs that share a pattern pairwise, two of them legitimate
ParInputs ==
    {"https://ics.uci.edu/a?b=1", "https://ics.uci.edu/a?b=2",
     "https://ics.uci.edu/wiki/a?b=1", "https://ics.uci.edu/wiki/a?c=1"}

\* URLs of one host and path, differing in the query or in the case of the
\* host, and a legitimate URL
SameInputs ==
    {"https://ics.uci.edu/a", "https://ICS.uci.edu/a", "https://ics.uci.edu/a?b=1",
     "https://ics.uci.edu/wiki/a?b=1"}

Inputs == PatternInputs \cup AdmitInputs \cup ParInputs \cup SameInputs

(***************************************************************************)
(* is_valid and is_url_trap with their counters.  What a call computes     *)
(* from its url alone is computed once for each URL of the model.          *)
(***************************************************************************)
\* host_of(url) and the path: what the same-path rule is said to count by
host_and_path(url) ==
    LET key(parsed) == <<str_lower(parsed.netloc), parsed.path>> IN key(urlparse(url))

checks_of(url) ==
    [reason_before_trap |-> reason_before_trap(url),
     trap_by_path       |-> trap_by_path(url),
     pattern            |-> get_url_pattern(url),
     pattern_limit      |-> pattern_limit(url),
     trap_by_query      |-> trap_by_query(url),
     path_key           |-> path_key(url),
     path_limit         |-> path_limit(url),
     reason_after_trap  |-> reason_after_trap(url),
     host_and_path      |-> host_and_path(url)]

Checks == [url \in Inputs |-> checks_of(url)]

\* a block under trap_lock that starts the count anew once it is over the limit
counter_section_renewed(counter, key, limit) ==
    [counter |-> Put(counter, key, IF Get(counter, key) + 1 > limit THEN 0
                                   ELSE Get(counter, key) + 1),
     trap    |-> Get(counter, key) + 1 > limit]

\* a block under trap_lock: counter[key] += 1 and counter[key] > limit
counter_section(counter, key, limit) ==
    [counter |-> Put(counter, key, Get(counter, key) + 1),
     trap    |-> Get(counter, key) + 1 > limit]

\* rule 3 of is_url_trap, the first block under trap_lock
pattern_section(counter, url) ==
    LET section(c) == counter_section(counter, c.pattern, c.pattern_limit) IN
    section(Checks[url])

\* rule 7 of is_url_trap, the second block under trap_lock
path_section(counter, url) ==
    LET section(c) == counter_section(counter, c.path_key, c.path_limit) IN
    section(Checks[url])

\* is_url_trap(url) on the counters upc and dpc: what it returns and the
\* counters it leaves
is_url_trap(url, upc, dpc) ==
    LET result(c, pattern, path) ==
            IF c.trap_by_path THEN [trap |-> TRUE, upc |-> upc, dpc |-> dpc]
            ELSE IF pattern.trap \/ c.trap_by_query
                 THEN [trap |-> TRUE, upc |-> pattern.counter, dpc |-> dpc]
                 ELSE [trap |-> path.trap, upc |-> pattern.counter, dpc |-> path.counter]
    IN  result(Checks[url], pattern_section(upc, url), path_section(dpc, url))

\* is_valid(url) on the counters upc and dpc: the reason it logs ("" when it
\* returns True) and the counters it leaves
is_valid_counting(url, upc, dpc) ==
    LET result(c, trap) ==
            IF c.reason_before_trap # ""
            THEN [reason |-> c.reason_before_trap, upc |-> upc, dpc |-> dpc]
            ELSE [reason |-> IF trap.trap THEN "url_trap" ELSE c.reason_after_trap,
                  upc    |-> trap.upc,
                  dpc    |-> trap.dpc]
    IN  result(Checks[url], is_url_trap(url, upc, dpc))

(***************************************************************************)
(* Calls of is_valid on URL strings, one after the other                   *)
(***************************************************************************)
\* a call of is_valid(url), from its first line to its return
IsValidEffects(url) ==
    LET call(r, key) ==
            /\ url_pattern_counter' = r.upc
            /\ domain_path_counter' = r.dpc
            /\ called_url' = url
            /\ calls' = calls + 1
            /\ rejection_reason' = r.reason
            /\ rejection_stats' =
                 IF r.reason = "" THEN rejection_stats
                 ELSE log_rejection(rejection_stats, r.reason)
            /\ accepted_at' =
                 IF r.reason = "" THEN Put(accepted_at, key, Get(accepted_at, key) + 1)
                 ELSE accepted_at
    IN  /\ call(is_valid_counting(url, url_pattern_counter, domain_path_counter),
                Checks[url].host_and_path)
        /\ UNCHANGED <<checked_url, trap_lock, trap_pc, trap_url, trap_read,
                       pattern_entered, pattern_passed>>

\* a call of is_valid(url) from outside the scraper
IsValidCall(url) ==
    /\ IsValidEffects(url)
    /\ UNCHANGED <<frontier_vars, idle_vars, host_vars, dup_vars, lock_vars, mark_vars,
                   scrape_vars>>

\* the pattern rule on paths that differ in a number: as many calls as the
\* rule lets through, and one more
PatternCalls == max_repeats + 1

InitPattern == seed_urls = <<>> /\ InitState

NextPattern == \E url \in PatternInputs : calls < PatternCalls /\ IsValidCall(url)

SpecPattern == InitPattern /\ [][NextPattern]_vars

\* the checks of is_valid in their order: as many calls as the same-path
\* rule lets through, and one more
AdmitCalls == max_same + 1

InitAdmit == seed_urls = <<>> /\ InitState

NextAdmit == \E url \in AdmitInputs : calls < AdmitCalls /\ IsValidCall(url)

SpecAdmit == InitAdmit /\ [][NextAdmit]_vars

(***************************************************************************)
(* The locks.  A worker thread goes through the stages of Worker.run and   *)
(* of scraper.scraper, which it calls; a stage is a stretch of code that   *)
(* runs either wholly inside one with-block or outside every with-block.   *)
(* Entering a with-block waits for its lock; leaving it, by its last line, *)
(* a return or an exception, releases the lock.                            *)
(***************************************************************************)
\* a download that runs inside the frontier's lock
lock_of_fetch_locked(s) ==
    CASE s \in {"get_tbd_url", "download", "add_url", "mark_url_complete", "handler"}
             -> "frontier"
      [] s \in {"pages_processed", "links_discovered", "pages_saved"} -> "progress"
      [] s \in {"exact", "similar"} -> "duplicate"
      [] s \in {"pattern", "path"} -> "trap"
      [] s = "rejection" -> "rejection"
      [] s \in {"log_early", "log_duplicate", "log_processed",
                "flush_early", "flush_duplicate", "flush_processed"} -> "processing"
      [] OTHER -> ""

\* the lock of the with-block a stage runs in, "" for a stage outside
lock_of(s) ==
    CASE s \in {"get_tbd_url", "add_url", "mark_url_complete", "handler"} -> "frontier"
      [] s \in {"pages_processed", "links_discovered", "pages_saved"} -> "progress"
      [] s \in {"exact", "similar"} -> "duplicate"
      [] s \in {"pattern", "path"} -> "trap"
      [] s = "rejection" -> "rejection"
      [] s \in {"log_early", "log_duplicate", "log_processed",
                "flush_early", "flush_duplicate", "flush_processed"} -> "processing"
      [] OTHER -> ""

\* what a stage does: a network fetch, an HTML parse, or neither
doing(s) ==
    CASE s = "download" -> "fetch"
      [] s \in {"soup", "links"} -> "parse"
      [] OTHER -> "other"

\* the stages that can follow a stage
next_stages(s) ==
    CASE s = "loop"              -> {"get_tbd_url"}
      [] s = "get_tbd_url"       -> {"loop", "count", "download"}
      [] s = "count"             -> {"loop", "stopped"}
      [] s = "download"          -> {"pages_processed", "handler"}
      [] s = "pages_processed"   -> {"log_early", "soup"}
      [] s = "soup"              -> {"log_early", "log_duplicate", "exact"}
      [] s = "exact"             -> {"log_duplicate", "simhash"}
      [] s = "simhash"           -> {"similar"}
      [] s = "similar"           -> {"log_duplicate", "links"}
      [] s = "log_duplicate"     -> {"flush_duplicate", "links"}
      [] s = "flush_duplicate"   -> {"links"}
      [] s = "links"             -> {"is_valid", "links_discovered", "log_early"}
      [] s = "is_valid"          -> {"rejection", "pattern"}
      [] s = "pattern"           -> {"rejection", "path"}
      [] s = "path"              -> {"rejection", "is_valid", "links_discovered"}
      [] s = "rejection"         -> {"is_valid", "links_discovered"}
      [] s = "links_discovered"  -> {"save_page", "log_processed", "add_url",
                                     "mark_url_complete"}
      [] s = "save_page"         -> {"pages_saved"}
      [] s = "pages_saved"       -> {"log_processed"}
      [] s = "log_processed"     -> {"flush_processed", "add_url", "mark_url_complete"}
      [] s = "flush_processed"   -> {"add_url", "mark_url_complete"}
      [] s = "log_early"         -> {"flush_early", "mark_url_complete"}
      [] s = "flush_early"       -> {"mark_url_complete"}
      [] s = "add_url"           -> {"add_url", "mark_url_complete"}
      [] s = "mark_url_complete" -> {"loop"}
      [] s = "handler"           -> {"loop"}
      [] OTHER                   -> {}

\* the end of a with-block
release(h, l, w) == IF l = "" THEN h ELSE [h EXCEPT ![l] = ""]

\* the start of a with-block
acquire(h, l, w) == IF l = "" THEN h ELSE [h EXCEPT ![l] = w]

\* thread w leaves its stage for the stage s
LockStep(w, s) ==
    /\ s \in next_stages(stage[w])
    /\ LET free == release(holder, lock_of(stage[w]), w) IN
       /\ lock_of(s) # "" => free[lock_of(s)] = ""
       /\ holder' = acquire(free, lock_of(s), w)
    /\ stage' = [stage EXCEPT ![w] = s]
    /\ UNCHANGED <<frontier_vars, idle_vars, host_vars, dup_vars, valid_vars, trap_vars,
                   mark_vars, scrape_vars>>

Stages ==
    {"loop", "get_tbd_url", "count", "download", "pages_processed", "soup", "exact",
     "simhash", "similar", "log_duplicate", "flush_duplicate", "links", "is_valid",
     "pattern", "path", "rejection", "links_discovered", "save_page", "pages_saved",
     "log_processed", "flush_processed", "log_early", "flush_early", "add_url",
     "mark_url_complete", "handler", "stopped"}

InitLocks == seed_urls = <<>> /\ InitState

NextLocks == \E w \in Workers : \E s \in Stages : LockStep(w, s)

SpecLocks == InitLocks /\ [][NextLocks]_vars

(***************************************************************************)
(* With-blocks inside with-blocks.  Frontier.__init__ runs in the main     *)
(* thread before the workers are started; without restart it calls         *)
(* _parse_save_file, whose loop runs inside 'with self.lock' and calls     *)
(* is_valid for every entry that is not completed.  A stage has an inner   *)
(* lock, that of its own with-block (lock_of), and may have an outer lock, *)
(* that of a with-block around the call the stage belongs to.              *)
(***************************************************************************)
\* log_processing that calls save_processing_log before it leaves its
\* with-block
outer_of_flush_inside(s) ==
    CASE s \in {"reload", "reload_pattern", "reload_path", "reload_rejection"} -> "frontier"
      [] s \in {"flush_early", "flush_duplicate", "flush_processed"} -> "processing"
      [] OTHER -> ""

\* the lock of a with-block around the stage: _parse_save_file holds the
\* frontier's lock around its loop and the calls of is_valid in it
outer_of(s) ==
    CASE s \in {"reload", "reload_pattern", "reload_path", "reload_rejection"} -> "frontier"
      [] OTHER -> ""

\* the lock of the with-block a stage of the reload is in
inner_of(s) ==
    CASE s \in {"reload_pattern", "reload_path"} -> "trap"
      [] s = "reload_rejection" -> "rejection"
      [] s = "seed" -> "frontier"
      [] OTHER -> lock_of(s)

\* the stages of the main thread: Frontier.__init__, lines 41-48 and 55-60,
\* and is_valid as _parse_save_file calls it; "started" when the workers run
main_stages(s) ==
    CASE s = "init"             -> {"reload", "seed"}
      [] s = "reload"           -> {"reload_rejection", "reload_pattern", "seed", "started"}
      [] s = "reload_pattern"   -> {"reload_rejection", "reload_path"}
      [] s = "reload_path"      -> {"reload_rejection", "reload"}
      [] s = "reload_rejection" -> {"reload"}
      [] s = "seed"             -> {"seed", "started"}
      [] OTHER                  -> {}

stages_after(t) == IF t = "main" THEN main_stages(stage[t]) ELSE next_stages(stage[t])

\* threading.RLock may be taken again by the thread that holds it
reentrant(l) == l = "frontier"

\* the locks as thread t leaves them when it goes from its stage to s: the
\* inner lock is given back, the outer one unless s is inside the same block
left_for(t, s) ==
    LET inner == release(holder, inner_of(stage[t]), t)
    IN  IF outer_of(stage[t]) = outer_of(s) THEN inner
        ELSE release(inner, outer_of(stage[t]), t)

\* thread t can take lock l when the locks are held as h says
can_take(h, l, t) ==
    IF l = "" THEN TRUE ELSE h[l] \in (IF reentrant(l) THEN {"", t} ELSE {""})

\* thread t leaves its stage for the stage s, taking the outer lock of s and
\* then its inner lock
NestStep(t, s) ==
    /\ s \in stages_after(t)
    /\ t \in Workers => stage["main"] = "started"
    /\ LET with_outer(free) ==
               /\ can_take(free, outer_of(s), t)
               /\ can_take(acquire(free, outer_of(s), t), inner_of(s), t)
               /\ holder' = acquire(acquire(free, outer_of(s), t), inner_of(s), t)
       IN  with_outer(left_for(t, s))
    /\ stage' = [stage EXCEPT ![t] = s]
    /\ UNCHANGED <<frontier_vars, idle_vars, host_vars, dup_vars, valid_vars, trap_vars,
                   mark_vars, scrape_vars>>

MainStages == {"init", "reload", "reload_pattern", "reload_path", "reload_rejection",
               "seed", "started"}

InitNest == seed_urls = <<>> /\ InitState

NextNest ==
    \/ \E s \in MainStages : NestStep("main", s)
    \/ \E w \in Workers : \E s \in Stages : NestStep(w, s)

SpecNest == InitNest /\ [][NextNest]_vars

\* the same-path rule: as many calls as two hosts' spellings need to pass
\* the limit of one
SameCalls == 2 * max_same + 2

InitSame == seed_urls = <<>> /\ InitState

NextSame == \E url \in SameInputs : calls < SameCalls /\ IsValidCall(url)

SpecSame == InitSame /\ [][NextSame]_vars

(***************************************************************************)
(* is_url_trap called by several threads: the two with-blocks of           *)
(* trap_lock, each as the steps read, write, compare                       *)
(***************************************************************************)
\* 'with trap_lock:' lets a thread in, had it not waited for the holder
trap_lock_free_always(l) == TRUE

\* 'with trap_lock:' lets a thread in
trap_lock_free(l) == l = ""

\* is_url_trap(url) begins: the rules 1 and 2
TrapBegin(w, url) ==
    /\ trap_pc[w] = "out"
    /\ calls < max_repeats_legitimate + 1
    /\ Checks[url].reason_before_trap = ""
    /\ calls' = calls + 1
    /\ trap_url' = [trap_url EXCEPT ![w] = url]
    /\ trap_pc' = [trap_pc EXCEPT ![w] = IF Checks[url].trap_by_path THEN "out" ELSE "pattern"]
    /\ UNCHANGED <<url_pattern_counter, domain_path_counter, called_url, accepted_at,
                   trap_lock, trap_read, pattern_entered, pattern_passed>>
    /\ UNCHANGED <<frontier_vars, idle_vars, host_vars, dup_vars, valid_vars, lock_vars,
                   mark_vars, scrape_vars>>

\* 'with trap_lock:' and the read of 'url_pattern_counter[pattern] += 1'
TrapReadPattern(w) ==
    /\ trap_pc[w] = "pattern"
    /\ trap_lock_free(trap_lock)
    /\ trap_lock' = w
    /\ trap_read' = [trap_read EXCEPT ![w] = Get(url_pattern_counter, Checks[trap_url[w]].pattern)]
    /\ trap_pc' = [trap_pc EXCEPT ![w] = "pattern_read"]
    /\ UNCHANGED <<url_pattern_counter, domain_path_counter, called_url, calls, accepted_at,
                   trap_url, pattern_entered, pattern_passed>>
    /\ UNCHANGED <<frontier_vars, idle_vars, host_vars, dup_vars, valid_vars, lock_vars,
                   mark_vars, scrape_vars>>

\* the write of 'url_pattern_counter[pattern] += 1'
TrapWritePattern(w) ==
    /\ trap_pc[w] = "pattern_read"
    /\ url_pattern_counter' =
         Put(url_pattern_counter, Checks[trap_url[w]].pattern, trap_read[w] + 1)
    /\ trap_pc' = [trap_pc EXCEPT ![w] = "pattern_written"]
    /\ UNCHANGED <<domain_path_counter, called_url, calls, accepted_at, trap_lock, trap_url,
                   trap_read, pattern_entered, pattern_passed>>
    /\ UNCHANGED <<frontier_vars, idle_vars, host_vars, dup_vars, valid_vars, lock_vars,
                   mark_vars, scrape_vars>>

\* 'if url_pattern_counter[pattern] > max_repeats', the end of the with-block
\* and the rules 4 to 6
TrapComparePattern(w) ==
    LET c == Checks[trap_url[w]]
        trap == Get(url_pattern_counter, c.pattern) > c.pattern_limit
    IN  /\ trap_pc[w] = "pattern_written"
        /\ trap_lock' = ""
        /\ pattern_entered' = Put(pattern_entered, c.pattern, Get(pattern_entered, c.pattern) + 1)
        /\ pattern_passed' =
             IF trap THEN pattern_passed
             ELSE Put(pattern_passed, c.pattern, Get(pattern_passed, c.pattern) + 1)
        /\ trap_pc' = [trap_pc EXCEPT ![w] = IF trap \/ c.trap_by_query THEN "out" ELSE "path"]
        /\ UNCHANGED <<url_pattern_counter, domain_path_counter, called_url, calls,
                       accepted_at, trap_url, trap_read>>
        /\ UNCHANGED <<frontier_vars, idle_vars, host_vars, dup_vars, valid_vars, lock_vars,
                       mark_vars, scrape_vars>>

\* 'with trap_lock:' and the read of 'domain_path_counter[netloc][path] += 1'
TrapReadPath(w) ==
    /\ trap_pc[w] = "path"
    /\ trap_lock_free(trap_lock)
    /\ trap_lock' = w
    /\ trap_read' = [trap_read EXCEPT ![w] = Get(domain_path_counter, Checks[trap_url[w]].path_key)]
    /\ trap_pc' = [trap_pc EXCEPT ![w] = "path_read"]
    /\ UNCHANGED <<url_pattern_counter, domain_path_counter, called_url, calls, accepted_at,
                   trap_url, pattern_entered, pattern_passed>>
    /\ UNCHANGED <<frontier_vars, idle_vars, host_vars, dup_vars, valid_vars, lock_vars,
                   mark_vars, scrape_vars>>

\* the write of 'domain_path_counter[netloc][path] += 1'
TrapWritePath(w) ==
    /\ trap_pc[w] = "path_read"
    /\ domain_path_counter' =
         Put(domain_path_counter, Checks[trap_url[w]].path_key, trap_read[w] + 1)
    /\ trap_pc' = [trap_pc EXCEPT ![w] = "path_written"]
    /\ UNCHANGED <<url_pattern_counter, called_url, calls, accepted_at, trap_lock, trap_url,
                   trap_read, pattern_entered, pattern_passed>>
    /\ UNCHANGED <<frontier_vars, idle_vars, host_vars, dup_vars, valid_vars, lock_vars,
                   mark_vars, scrape_vars>>

\* 'if domain_path_counter[netloc][path] > max_same', the end of the
\* with-block and the return
TrapComparePath(w) ==
    /\ trap_pc[w] = "path_written"
    /\ trap_lock' = ""
    /\ trap_pc' = [trap_pc EXCEPT ![w] = "out"]
    /\ UNCHANGED <<url_pattern_counter, domain_path_counter, called_url, calls, accepted_at,
                   trap_url, trap_read, pattern_entered, pattern_passed>>
    /\ UNCHANGED <<frontier_vars, idle_vars, host_vars, dup_vars, valid_vars, lock_vars,
                   mark_vars, scrape_vars>>

InitTrapPar == seed_urls = <<>> /\ InitState

NextTrapPar ==
    \/ \E w \in Workers : \E url \in ParInputs : TrapBegin(w, url)
    \/ \E w \in Workers : TrapReadPattern(w)
    \/ \E w \in Workers : TrapWritePattern(w)
    \/ \E w \in Workers : TrapComparePattern(w)
    \/ \E w \in Workers : TrapReadPath(w)
    \/ \E w \in Workers : TrapWritePath(w)
    \/ \E w \in Workers : TrapComparePath(w)

SpecTrapPar == InitTrapPar /\ [][NextTrapPar]_vars

(***************************************************************************)
(* scraper.scraper: the checks of the response, the duplicate detector,    *)
(* the links and the page store                                            *)
(***************************************************************************)
MAX_CONTENT_SIZE == 5 * 1024 * 1024

MIN_WORD_COUNT == 50

\* urllib.parse.urldefrag(url)[0]
urldefrag(url) ==
    LET cut(h) == IF h = 0 THEN url ELSE SubSeq(url, 1, h - 1) IN cut(Find(url, "#"))

\* urllib.parse.urljoin(base, href) for an href that is a whole URL, a path
\* from the root or a path beside the base, without dot segments
urljoin(base, href) ==
    LET join(b, h) ==
            IF h.scheme # "" THEN href
            ELSE IF StartsAt(href, 1, "/") THEN b.scheme \o "://" \o b.netloc \o href
            ELSE SubSeq(base, 1, RFind(base, "/")) \o href
    IN  join(urlparse(base), urlparse(href))

\* extract_text_content_from_soup, lines 437-438: every header, footer and
\* nav is taken out of the soup with what it holds; the hrefs of the <a>
\* tags that are left
decompose(page) == page.body_links

\* every <a href> of the document as it was fetched
all_hrefs(page) == page.body_links \cup page.nav_links

\* extract_next_links_from_soup(url, soup) for a soup with these hrefs
extract_next_links(url, hrefs) ==
    {urldefrag(urljoin(url, href)) :
        href \in hrefs \ {"", "#", "javascript:void(0)", "javascript:;"}} \ {"", url}

\* log_processing: the entry, and save_processing_log at every 100th
log_processing(log, url, status, reason, links_found) ==
    LET saved(l) == IF Len(l) % 100 = 0 THEN <<>> ELSE l
    IN  saved(Append(log, [url |-> url, status |-> status, reason |-> reason,
                           links_found |-> links_found]))

\* the urls scraper has been called with
scraped == {scrape_page[w].url : w \in Workers} \cup {e.url : e \in Range(processing_log)}

\* scraper, lines 379-406: the response is counted and checked; a response
\* that passes goes on to is_duplicate
ScrapeBegin(w, page) ==
    /\ scrape_pc[w] = "idle"
    /\ scrapes' = scrapes + 1
    /\ scrape_page' = [scrape_page EXCEPT ![w] = page]
    /\ scrape_result' = [scrape_result EXCEPT ![w] = {}]
    /\ LET skip(status, reason) ==
               /\ processing_log' = log_processing(processing_log, page.url, status, reason, 0)
               /\ UNCHANGED <<scrape_pc, dup_result>>
       IN  IF page.status # 200 THEN skip("error", "status_" \o str(page.status))
           ELSE IF page.size < 100 THEN skip("skipped", "empty")
           ELSE IF page.size > MAX_CONTENT_SIZE THEN skip("skipped", "large")
           ELSE IF page.words < MIN_WORD_COUNT
                THEN skip("skipped", "low_words_" \o str(page.words))
           ELSE /\ scrape_pc' = [scrape_pc EXCEPT ![w] = "is_duplicate"]
                /\ dup_result' = [dup_result EXCEPT ![w] = NoResult]
                /\ UNCHANGED processing_log
    /\ UNCHANGED <<scrape_links, page_store, link_verdicts>>
    /\ UNCHANGED <<seen_exact_hashes, seen_simhashes, dup_pc, dup_text, checked,
                   checked_long, second_not_exact, second_long_not_exact>>
    /\ UNCHANGED <<frontier_vars, idle_vars, host_vars, valid_vars, trap_vars, lock_vars,
                   mark_vars>>

\* scraper, line 407: the call of is_duplicate on the text and the url
ScrapeIsDuplicate(w) ==
    /\ scrape_pc[w] = "is_duplicate"
    /\ dup_result[w] = NoResult
    /\ IsDuplicateExact(w, <<scrape_page[w].text, scrape_page[w].url>>)

\* scraper, lines 409-411 and 416: a duplicate is logged; the links are
\* taken from the soup that extract_text_content_from_soup has cut
ScrapeExtract(w) ==
    /\ scrape_pc[w] = "is_duplicate"
    /\ dup_pc[w] = "idle"
    /\ dup_result[w] # NoResult
    /\ processing_log' =
         IF dup_result[w][1]
         THEN log_processing(processing_log, scrape_page[w].url, "duplicate",
                             dup_result[w][2], 0)
         ELSE processing_log
    /\ scrape_links' =
         [scrape_links EXCEPT
            ![w] = extract_next_links(scrape_page[w].url, decompose(scrape_page[w]))]
    /\ scrape_pc' = [scrape_pc EXCEPT ![w] = "links"]
    /\ UNCHANGED <<scrape_page, scrape_result, page_store, scrapes, link_verdicts>>
    /\ UNCHANGED <<frontier_vars, idle_vars, host_vars, dup_vars, valid_vars, trap_vars,
                   lock_vars, mark_vars>>

\* scraper, lines 412 and 417: is_valid on one more of the links
ScrapeLink(w, link) ==
    /\ scrape_pc[w] = "links"
    /\ link \in scrape_links[w]
    /\ IsValidEffects(link)
    /\ scrape_links' = [scrape_links EXCEPT ![w] = @ \ {link}]
    /\ scrape_result' =
         [scrape_result EXCEPT ![w] = IF rejection_reason' = "" THEN @ \cup {link} ELSE @]
    /\ link_verdicts' = link_verdicts \cup {<<link, rejection_reason' = "">>}
    /\ UNCHANGED <<scrape_pc, scrape_page, page_store, processing_log, scrapes>>
    /\ UNCHANGED <<frontier_vars, idle_vars, host_vars, dup_vars, lock_vars, mark_vars>>

\* scraper, lines 413-415 and 419-429: a duplicate returns its valid links;
\* another page is saved if it has a valid link or more than 200 words, is
\* logged and returns its valid links
ScrapeReturn(w) ==
    /\ scrape_pc[w] = "links"
    /\ scrape_links[w] = {}
    /\ LET valid_links == Cardinality(scrape_result[w])
           url == scrape_page[w].url
       IN  IF dup_result[w][1]
           THEN UNCHANGED <<page_store, processing_log>>
           ELSE /\ page_store' =
                     IF valid_links > 0 \/ scrape_page[w].words > 200
                     THEN page_store \cup {url} ELSE page_store
                /\ processing_log' =
                     log_processing(processing_log, url, "processed", "success", valid_links)
    /\ scrape_pc' = [scrape_pc EXCEPT ![w] = "idle"]
    /\ UNCHANGED <<scrape_page, scrape_links, scrape_result, scrapes, link_verdicts>>
    /\ UNCHANGED <<frontier_vars, idle_vars, host_vars, dup_vars, valid_vars, trap_vars,
                   lock_vars, mark_vars>>

\* how many calls of scraper a run of the model makes
MaxScrapes == 3

\* the pages of the model: three with one text, P3 with no valid link; a
\* text near it; a short text twice; and responses the first checks turn away
P1 == Page("https://ics.uci.edu/p1", 200, 5000, T1, 150,
           {"https://ics.uci.edu/a#top", "#"}, {"https://ics.uci.edu/wiki/a?b=1"})
P2 == Page("https://ics.uci.edu/p2", 200, 5000, T1, 150,
           {"/a", "p2"}, {})
P3 == Page("https://ics.uci.edu/p3", 200, 5000, T1, 150,
           {"https://ics.uci.edu/login"}, {})
P4 == Page("https://ics.uci.edu/p4", 200, 5000, T2, 250, {}, {"/courses/cs101/"})
P5 == Page("https://ics.uci.edu/p5", 200, 200, Ts, 50, {"/a"}, {})
P6 == Page("https://ics.uci.edu/p6", 200, 200, Ts, 50, {}, {})
P7 == Page("https://ics.uci.edu/p7", 404, 5000, T3, 150, {"/a"}, {})
P8 == Page("https://ics.uci.edu/p8", 200, 5000, T3, 10, {"/a"}, {})

ScrapePages == {P1, P2, P3, P4, P5, P6, P7, P8}

InitScrape == seed_urls = <<>> /\ InitState

NextScrape ==
    \/ \E w \in Workers : \E page \in ScrapePages :
          scrapes < MaxScrapes /\ page.url \notin scraped /\ ScrapeBegin(w, page)
    \/ \E w \in Workers : ScrapeIsDuplicate(w)
    \/ \E w \in Workers : scrape_pc[w] = "is_duplicate" /\ IsDuplicateSimilar(w)
    \/ \E w \in Workers : ScrapeExtract(w)
    \/ \E w \in Workers : \E link \in scrape_links[w] : ScrapeLink(w, link)
    \/ \E w \in Workers : ScrapeReturn(w)

SpecScrape == InitScrape /\ [][NextScrape]_vars

(***************************************************************************)
(* Frontier.mark_url_complete called on any url                            *)
(***************************************************************************)
MaxMarkCalls == 2

\* a call of Frontier.mark_url_complete(url) on a built Frontier
MarkCall(url) ==
    /\ proc \in {"ready", "up"}
    /\ mark_calls < MaxMarkCalls
    /\ save' = mark_url_complete(save, url)
    /\ mark_arg' = url
    /\ mark_calls' = mark_calls + 1
    /\ UNCHANGED <<proc, restart, seed_urls, crashes, domain_queues, last_access_time,
                   urls_seen, pc, tbd_url, passed, accepted, since_return, crashed_with>>
    /\ UNCHANGED <<idle_vars, host_vars, dup_vars, valid_vars, trap_vars, lock_vars,
                   scrape_vars>>

InitMark == seed_urls \in {<<>>, <<a1>>} /\ InitState

NextMark ==
    \/ \E r \in BOOLEAN : Start(r)
    \/ Launch
    \/ Tick
    \/ \E w \in Workers : WorkerGet(w)
    \/ \E w \in Workers : WorkerScrape(w)
    \/ \E w \in Workers : WorkerAdd(w)
    \/ \E w \in Workers : WorkerMark(w)
    \/ \E w \in Workers : WorkerFail(w)
    \/ \E url \in RawUrls : MarkCall(url)

SpecMark == InitMark /\ [][NextMark]_vars

(***************************************************************************)
(* Properties                                                              *)
(***************************************************************************)
\* how often u occurs in the queue of entry i
Occurrences(i, u) ==
    Cardinality({k \in 1..Len(domain_queues[i].queue) : domain_queues[i].queue[k] = u})

\* u is in the queue of its own domain
InHostQueue(u) ==
    \E i \in 1..Len(domain_queues) :
        /\ domain_queues[i].domain = _get_domain(u)
        /\ u \in Range(domain_queues[i].queue)

\* the store holds exactly one entry for u, under u's hash
OneEntry(u) ==
    /\ get_urlhash(u) \in DOMAIN save
    /\ {h \in DOMAIN save : save[h][1] = u} = {get_urlhash(u)}

\* the process was started without restart on the store a stopped process left
Reloaded == proc = "ready" /\ ~restart /\ crashes > 0

\* C1: politeness.  Whenever get_tbd_url returns a URL of a domain it has served
\* before in this run, at least time_delay ticks have passed since that return.
C1_Politeness ==
    [][\A w \in Workers :
         (tbd_url[w] = NoUrl /\ tbd_url'[w] # NoUrl) =>
            LET d == _get_domain(tbd_url'[w]) IN
            d \in DOMAIN since_return => since_return[d] >= time_delay]_vars

\* two workers hold URLs of one domain: the domain was served twice in this run
C1_Witness ==
    \E w1, w2 \in Workers :
        /\ w1 # w2
        /\ tbd_url[w1] # NoUrl
        /\ tbd_url[w2] # NoUrl
        /\ _get_domain(tbd_url[w1]) = _get_domain(tbd_url[w2])

C4_PassedIsStored ==
    \A u \in passed : get_urlhash(u) \in DOMAIN save

\* add_url has returned for a new URL and for one it knew
C4_Witness ==
    /\ proc = "up"
    /\ \E u \in accepted : Pending(u)
    /\ passed \ accepted # {}

\* C5: no URL is in a queue while its store entry says completed.
C5_CompletedNotQueued ==
    \A u \in Queued : ~Completed(u)

\* after a reload with completed entries, add_url was called for one of them
\* while other URLs are queued
C5_Witness ==
    /\ proc = "up" /\ ~restart /\ crashes > 0
    /\ \E u \in passed : Completed(u) /\ u \notin accepted
    /\ Queued # {}

\* C6: no two workers hold the same URL, and a URL a worker holds is in no
\* queue, so it cannot be returned again before it is marked complete.
C6_HeldOnce ==
    /\ \A w1, w2 \in Workers :
         (w1 # w2 /\ tbd_url[w1] # NoUrl) => tbd_url[w1] # tbd_url[w2]
    /\ \A u \in InFlight : u \notin Queued

\* both workers hold a URL while add_url is being called for a held URL
C6_Witness ==
    /\ \A w \in Workers : tbd_url[w] # NoUrl
    /\ \E w \in Workers : pc[w] = "add" /\ InFlight \cap passed # {}

\* C7: add_url is idempotent.  In every state, add_url(u) twice leaves the
\* store, the queues and the seen set as add_url(u) once does, and no URL is
\* in the queues twice.
C7_AddUrlIdempotent ==
    /\ proc # "down" =>
         \A u \in RawUrls : add_url(add_url(frontier, u), u) = add_url(frontier, u)
    /\ \A i, j \in 1..Len(domain_queues) : \A u \in Range(domain_queues[i].queue) :
         Occurrences(i, u) = 1 /\ (u \in Range(domain_queues[j].queue) => i = j)

\* add_url has enqueued u and a worker is about to call add_url for u again,
\* while the other worker is adding links too
C7_Witness ==
    /\ \A w \in Workers : pc[w] = "add"
    /\ \E w \in Workers : \E url \in ScrapedLinks(tbd_url[w]) :
         /\ normalize(url) \in accepted
         /\ normalize(url) \in Queued

C9_ReloadedSet ==
    Reloaded => Queued = {u \in Stored : Pending(u) /\ is_valid(u)}

\* the reloaded store held a completed entry, a pending entry that is_valid
\* rejects and a pending entry that it accepts
C9_Witness ==
    /\ Reloaded
    /\ \E u \in Stored : Completed(u)
    /\ \E u \in Stored : Pending(u) /\ ~is_valid(u)
    /\ Queued # {}

Domains == {_get_domain(u) : u \in RawUrls}

QueueNonEmpty(d) ==
    \E i \in 1..Len(domain_queues) :
        domain_queues[i].domain = d /\ domain_queues[i].queue # <<>>

\* get_tbd_url has just returned a URL of d
JustServed(d) == d \in DOMAIN since_return /\ since_return[d] = 0

\* C10: starvation freedom.  Under fair scheduling, whenever the queue of a
\* domain is non-empty, get_tbd_url eventually returns a URL of that domain.
C10_StarvationFree ==
    \A d \in Domains : QueueNonEmpty(d) ~> JustServed(d)

\* the queue of domain d in the queues dq, empty if d has none
QueueOf(dq, d) ==
    IF \E i \in 1..Len(dq) : dq[i].domain = d
    THEN dq[CHOOSE i \in 1..Len(dq) : dq[i].domain = d].queue
    ELSE <<>>

\* C11: per-host FIFO.  While the process runs, every step leaves the queue of
\* a host as it is, or puts one URL at its end (an enqueue), or takes the URL
\* at its head and hands that URL to a worker (a return of get_tbd_url); and a
\* URL handed to a worker was the head of the queue of its host.  So the URLs
\* of a host are returned in the order of their enqueues.
C11_PerHostFifo ==
    [][(proc = "up" /\ proc' = "up") =>
        /\ \A d \in {domain_queues[i].domain : i \in 1..Len(domain_queues)} :
             LET q  == QueueOf(domain_queues, d)
                 q2 == QueueOf(domain_queues', d)
             IN  \/ q2 = q
                 \/ \E u \in RawUrls : q2 = Append(q, u)
                 \/ /\ q # <<>>
                    /\ q2 = Tail(q)
                    /\ \E w \in Workers : tbd_url[w] = NoUrl /\ tbd_url'[w] = Head(q)
        /\ \A w \in Workers :
             (tbd_url[w] = NoUrl /\ tbd_url'[w] # NoUrl) =>
                LET q == QueueOf(domain_queues, LowerNetloc(tbd_url'[w].netloc)) IN
                /\ q # <<>>
                /\ tbd_url'[w] = Head(q)
                /\ QueueOf(domain_queues', LowerNetloc(tbd_url'[w].netloc)) = Tail(q)]_vars

\* add_url has put a2 at the end of the queue that held a1, while a worker
\* holds a URL that get_tbd_url took from the head of another queue
C11_Witness ==
    /\ proc = "up"
    /\ QueueOf(domain_queues, LowerNetloc(a1.netloc)) = <<a1, a2>>
    /\ a2 \in accepted
    /\ InFlight # {}

\* C12: every queued URL is in one queue only, once, and that queue is the one
\* keyed by the lowercased netloc of the URL; no two queues have the same key.
C12_OneQueueOwnHost ==
    /\ \A i \in 1..Len(domain_queues) : \A u \in Range(domain_queues[i].queue) :
         /\ domain_queues[i].domain = LowerNetloc(u.netloc)
         /\ Cardinality({k \in 1..Len(domain_queues[i].queue) :
                            domain_queues[i].queue[k] = u}) = 1
         /\ \A j \in 1..Len(domain_queues) :
              u \in Range(domain_queues[j].queue) => j = i
    /\ \A i, j \in 1..Len(domain_queues) :
         domain_queues[i].domain = domain_queues[j].domain => i = j

\* URLs of two hosts wait in two queues while add_url has been called for a
\* URL it had seen before
C12_Witness ==
    /\ proc = "up"
    /\ \E i, j \in 1..Len(domain_queues) :
         /\ i # j
         /\ domain_queues[i].queue # <<>>
         /\ domain_queues[j].queue # <<>>
    /\ passed \ accepted # {}

\* C13: every URL get_tbd_url returned to a worker is passed to
\* mark_url_complete by that worker: under fair scheduling, a worker that holds
\* u reaches the state in which it holds nothing and the store says u is
\* completed, whether the download and the scraper succeeded or raised.
C13_HeldIsMarked ==
    \A w \in Workers : \A u \in RawUrls :
        (proc = "up" /\ tbd_url[w] = u) ~> (tbd_url[w] = NoUrl /\ Completed(u))

\* a worker has marked a seed complete and is back in the loop with no link of
\* the page added: the download raised, or the scraper raised or found nothing
C13_Witness ==
    /\ proc = "up"
    /\ Completed(a1)
    /\ Stored = {a1, b1}
    /\ \E w \in Workers : pc[w] = "loop" /\ tbd_url[w] = NoUrl

\* worker w leaves its loop in this step
Exits(w) == pc[w] # "stopped" /\ pc'[w] = "stopped"

\* C14: a worker leaves its loop only in a state where it has had at least
\* max_consecutive_none None returns in a row, more than max_idle_time has
\* passed since it last obtained a URL, and the total size of the queues is 0;
\* and when its _get_total_tbd_count returns more than 0 it resets its counter
\* and stays in the loop.  The total is asked to have been 0 at some moment
\* since the worker began to count, which is less than to ask it of the state
\* in which the worker leaves.
C14_ExitOnlyIdleAndEmpty ==
    [][\A w \in Workers :
         /\ Exits(w) =>
              /\ consecutive_none_count[w] >= max_consecutive_none
              /\ idle_time[w] > max_idle_time
              /\ seen_empty[w]
         /\ (pc[w] = "count" /\ Len(domain_queues) = count_len[w]
                /\ count_at[w] > count_len[w] /\ count[w] > 0 /\ pc'[w] # "count") =>
              (pc'[w] = "loop" /\ consecutive_none_count'[w] = 0)]_vars

\* C15: with an empty seed list and an empty store, get_tbd_url never returns
\* a URL, and under fair scheduling every worker eventually leaves its loop.
C15_EmptySeedsStop ==
    (seed_urls = <<>>) =>
        /\ [](\A w \in Workers : tbd_url[w] = NoUrl)
        /\ <>(\A w \in Workers : pc[w] = "stopped")

\* no seeds: every worker has polled to its maximum, waited, counted and stopped
C15_Witness ==
    /\ seed_urls = <<>>
    /\ proc = "up"
    /\ \A w \in Workers :
         /\ pc[w] = "stopped"
         /\ consecutive_none_count[w] = max_consecutive_none
         /\ idle_time[w] > max_idle_time

\* C16: a worker leaves its loop only by the idle branch, from its call of
\* _get_total_tbd_count; no step taken while it downloads, scrapes, adds
\* links or marks its URL, whether an exception is raised or not, ends it.
C16_ExitOnlyByIdleBranch ==
    [][\A w \in Workers : Exits(w) => (pc[w] = "count" /\ tbd_url[w] = NoUrl)]_vars

\* one worker has stopped by the idle branch while the store holds a URL that
\* a worker gave up without marking it complete
C16_Witness ==
    /\ \E w \in Workers : pc[w] = "stopped"
    /\ \E u \in Stored : Pending(u) /\ u \notin Queued /\ u \notin InFlight

\* C17: one host with N URLs queued, delay time_delay, K workers.  When
\* get_tbd_url has returned k of the URLs of the host, at least
\* (k - 1) * time_delay has passed since it returned the first; so the time
\* from the first return to the last, the N-th, is at least
\* (N - 1) * time_delay.
C17_SingleHostSpan ==
    returned >= 1 => elapsed >= (returned - 1) * time_delay

\* all N URLs of the host have been returned, the last one exactly
\* (N - 1) * time_delay after the first, and both workers hold one of them
C17_Witness ==
    /\ returned = Len(HostSeeds)
    /\ elapsed = HostSpan
    /\ \A w \in Workers : tbd_url[w] \in Range(HostSeeds)

\* C18 as stated: of any two calls of is_duplicate with texts of one MD5
\* digest, the one that is decided second is reported ('exact').
C18_SecondIsExact == second_not_exact = {}

\* C18, amended: of any two calls of is_duplicate with texts of one MD5 digest
\* that both have a stripped length of at least 100, the one that reaches the
\* exact check second is reported (TRUE, 'exact'), however the calls of the
\* workers interleave.
C18_SecondLongIsExact == second_long_not_exact = {}

\* two workers called with texts of one digest at once: one is past the exact
\* check and on its way to the ring, the other has been reported 'exact'
C18_Witness ==
    \E w1, w2 \in Workers :
        /\ dup_pc[w1] = "similar"
        /\ dup_text[w1][1].md5 = "m1"
        /\ dup_result[w2] = <<TRUE, "exact">>
        /\ seen_exact_hashes = {"m1"}

\* C19: the ring never holds more than SIMHASH_WINDOW entries, and a step that
\* appends to a full ring removes its oldest entry, the first, and no other.
C19_RingBounded ==
    /\ [](Len(seen_simhashes) <= SIMHASH_WINDOW)
    /\ [][seen_simhashes' # seen_simhashes =>
            \E x \in {<<p[1].simhash, p[2]>> : p \in Pages} :
                seen_simhashes' =
                    IF Len(seen_simhashes) = SIMHASH_WINDOW
                    THEN Append(Tail(seen_simhashes), x)
                    ELSE Append(seen_simhashes, x)]_vars

\* the ring is full and its first entry is no longer the first that was
\* appended: T1, whose digest is known, is not in the ring
C19_Witness ==
    /\ Len(seen_simhashes) = SIMHASH_WINDOW
    /\ "m1" \in seen_exact_hashes
    /\ \A i \in 1..Len(seen_simhashes) : seen_simhashes[i][1] \notin {T1.simhash, T1c.simhash}
    /\ \A w \in Workers : dup_pc[w] = "idle"

\* the host of url equals a deny-listed domain or is a subdomain of one
DenyListed(url) == \E b \in blocked : HostMatches(LowerNetloc(url.netloc), b)

\* C20: is_valid rejects every http(s) URL whose host equals, or is a
\* subdomain of, a deny-listed domain, and the reason it logs is
\* 'blocked_domain'.
C20_DenyListedIsBlocked ==
    (checked_url # NoUrl /\ checked_url.scheme \in {"http", "https"}
        /\ DenyListed(checked_url)) =>
            (~is_valid(checked_url) /\ rejection_reason = "blocked_domain")

\* C21: starting from fresh trap counters, of the calls of is_valid on URLs
\* that share the pattern stat.uci.edu/x/N? (paths that differ only in the
\* integer N) only the first max_repeats (75 in the source) return True: no
\* more than max_repeats of these URLs are ever accepted.
C21_DigitPatternLimit ==
    Cardinality({u \in DigitUrls : Get(accepted_at, Checks[u].host_and_path) > 0}) <= max_repeats

\* the host of url is one of VALID_DOMAINS or under one of them
AllowListed(url) ==
    LET listed(netloc) ==
            \E d \in VALID_DOMAINS : netloc = dotted(d) \/ EndsWith(netloc, "." \o dotted(d))
    IN  listed(str_lower(urlparse(url).netloc))

\* the integers that stand first for page, p, offset or start in url's query
PagingValues(url) ==
    LET values(query) ==
            {int(qs_first(query, param)) :
                param \in {k \in qs_keys(query) \cap {"page", "p", "offset", "start"} :
                              is_int(qs_first(query, k))}}
    IN  values(urlparse(url).query)

PagingFacts == [url \in Inputs |-> [allowed |-> AllowListed(url), values |-> PagingValues(url)]]

\* the last call was rejected by a rule of is_url_trap other than rule 4
OtherTrapRule(url) ==
    \/ Checks[url].trap_by_path
    \/ Get(url_pattern_counter, Checks[url].pattern) > Checks[url].pattern_limit
    \/ Get(domain_path_counter, Checks[url].path_key) > Checks[url].path_limit
    \/ Len(urlparse(url).query) > max_query_length
    \/ Cardinality(filter_words(urlparse(url).query)) >= min_filter_params

\* C22 as stated: an allow-listed URL whose query parameter page, p, offset
\* or start has an integer first value greater than 200 is rejected by
\* is_valid with reason 'url_trap'.
C22_OverPageIsTrap ==
    (/\ called_url # ""
     /\ PagingFacts[called_url].allowed
     /\ \E v \in PagingFacts[called_url].values : v > max_page)
        => rejection_reason = "url_trap"

\* C22, amended: a URL that passes checks 1 to 6 of is_valid (scheme, host,
\* length, calendar and known-trap patterns) and whose query parameter page,
\* p, offset or start has an integer first value greater than 200 is rejected
\* with reason 'url_trap'; when such values are all at most 200, a rejection
\* as 'url_trap' comes from another rule of the trap detector.
C22_OverPagePastChecks ==
    /\ (/\ called_url # ""
        /\ Checks[called_url].reason_before_trap = ""
        /\ \E v \in PagingFacts[called_url].values : v > max_page)
           => rejection_reason = "url_trap"
    /\ (/\ called_url # ""
        /\ PagingFacts[called_url].values # {}
        /\ \A v \in PagingFacts[called_url].values : v <= max_page
        /\ rejection_reason = "url_trap")
           => OtherTrapRule(called_url)

C22_Witness ==
    /\ called_url = "https://stat.uci.edu/news?page=250"
    /\ rejection_reason = "url_trap"
    /\ Get(url_pattern_counter, Checks[called_url].pattern) <= max_repeats
    /\ Get(accepted_at, <<"stat.uci.edu", "/news">>) > 0

\* the hosts with a non-empty queue whose last access is at least the delay
\* old, or that were never accessed
ReadyHosts ==
    {i \in 1..Len(domain_queues) :
        /\ Len(domain_queues[i].queue) > 0
        /\ \/ domain_queues[i].domain \notin DOMAIN last_access_time
           \/ last_access_time[domain_queues[i].domain] >= time_delay}

\* the result of get_tbd_url in the present state is that of the first ready host
ReturnsFirstReady(r) ==
    \E i \in ReadyHosts :
        /\ \A k \in ReadyHosts : i <= k
        /\ r.url = domain_queues[i].queue[1]
        /\ Len(r.domain_queues) = Len(domain_queues)
        /\ r.domain_queues[i].domain = domain_queues[i].domain
        /\ r.domain_queues[i].queue = Tail(domain_queues[i].queue)
        /\ \A k \in 1..Len(domain_queues) : k # i => r.domain_queues[k] = domain_queues[k]
        /\ DOMAIN r.last_access_time = DOMAIN last_access_time \cup {domain_queues[i].domain}
        /\ r.last_access_time[domain_queues[i].domain] = 0
        /\ \A d \in DOMAIN last_access_time :
               d # domain_queues[i].domain => r.last_access_time[d] = last_access_time[d]

\* C23: get_tbd_url returns none exactly when no host has a non-empty queue
\* whose last access is at least the delay old, and then changes no frontier
\* state; otherwise it removes and returns the head of the first ready host's
\* queue and sets only that host's last-access time to now.  A worker that
\* gets a URL leaves every other queue, every other last-access time, the
\* seen set and the store as they were.
C23_GetFrame ==
    /\ [](LET r == get_tbd_url(domain_queues, last_access_time) IN
          /\ (r.url = NoUrl) <=> (ReadyHosts = {})
          /\ ReadyHosts = {} =>
                 /\ r.domain_queues = domain_queues
                 /\ r.last_access_time = last_access_time
          /\ ReadyHosts # {} => ReturnsFirstReady(r))
    /\ [][\A w \in Workers :
            (tbd_url[w] = NoUrl /\ tbd_url'[w] # NoUrl) =>
                /\ ReturnsFirstReady([url |-> tbd_url'[w],
                                      domain_queues |-> domain_queues',
                                      last_access_time |-> last_access_time'])
                /\ save' = save
                /\ urls_seen' = urls_seen]_vars

\* a worker has just been given a URL while another worker holds a URL of
\* another host, and a queue that is not empty cools down: the next call
\* returns none
C23_Witness ==
    /\ \E w, v \in Workers :
           /\ pc[w] = "download"
           /\ last_access_time[_get_domain(tbd_url[w])] = 0
           /\ tbd_url[v] # NoUrl
           /\ _get_domain(tbd_url[v]) # _get_domain(tbd_url[w])
    /\ ReadyHosts = {}
    /\ Queued # {}

\* C24: every read of the frontier's host queues by a worker happens while
\* the frontier's mutex is held, so that no other worker writes to the host
\* queues between two reads of one traversal: while a worker is inside
\* _get_total_tbd_count, the host queues do not change.
C24_CountExcludesWrites ==
    [][\A w \in Workers :
          (pc[w] = "count" /\ pc'[w] = "count") => domain_queues' = domain_queues]_vars

\* C25: no thread holds the frontier lock, the duplicate lock, the trap lock
\* or a statistics lock while a network fetch or an HTML parse is in progress
\* in that thread.
C25_NoLockAcrossFetchOrParse ==
    \A w \in Workers :
        doing(stage[w]) \in {"fetch", "parse"} => \A l \in Locks : holder[l] # w

\* one thread downloads while the other holds the frontier's lock
C25_Witness ==
    \E w, v \in Workers :
        /\ stage[w] = "download"
        /\ holder["frontier"] = v
        /\ stage[v] = "add_url"

\* the seed URLs, as add_url stores them
Seeds == {normalize(u) : u \in Range(seed_urls)}

\* after the step, the store and the queues hold the seed URLs, pending, and
\* nothing else
SeededOnly ==
    /\ DOMAIN save' = {get_urlhash(u) : u \in Seeds}
    /\ \A u \in Seeds : save'[get_urlhash(u)] = <<u, FALSE>>
    /\ UNION {Range(domain_queues'[i].queue) : i \in 1..Len(domain_queues')} = Seeds

\* C26: init with restart=true removes the existing store and leaves exactly
\* the seed URLs pending; init with restart=false enqueues the stored entries
\* that are completed=false and pass is_valid, and adds the seed URLs if and
\* only if the store is empty: a store that is not empty is left as it is,
\* and if all its entries are completed the frontier is empty.
C26_InitSeedsOrReloads ==
    [][(proc = "down" /\ proc' = "ready") =>
          IF restart' \/ DOMAIN save = {}
          THEN SeededOnly
          ELSE /\ save' = save
               /\ UNION {Range(domain_queues'[i].queue) : i \in 1..Len(domain_queues')}
                      = {u \in Stored : Pending(u) /\ is_valid(u)}]_vars

\* init without restart has found a store whose entries are all completed:
\* no queue, and no seed added
C26_Witness ==
    /\ Reloaded
    /\ DOMAIN save # {}
    /\ \A h \in DOMAIN save : save[h][2]
    /\ domain_queues = <<>>
    /\ seed_urls # <<>>

\* C27: a call of mark_url_complete(u), from Worker.run or from anywhere
\* else, for a url seen before or not, leaves the entry of urlhash(u) equal
\* to (u, true) and every other entry as it was, and changes neither the
\* host queues nor the seen set nor a last-access time.
MarkedEntry(url) ==
    /\ get_urlhash(url) \in DOMAIN save'
    /\ save'[get_urlhash(url)] = <<url, TRUE>>
    /\ \A h \in DOMAIN save' \ {get_urlhash(url)} : h \in DOMAIN save /\ save'[h] = save[h]
    /\ DOMAIN save \subseteq DOMAIN save'
    /\ domain_queues' = domain_queues
    /\ urls_seen' = urls_seen
    /\ last_access_time' = last_access_time

C27_MarkAlwaysCompletes ==
    [][/\ mark_calls' = mark_calls + 1 => MarkedEntry(mark_arg')
       /\ \A w \in Workers :
            (proc = "up" /\ proc' = "up" /\ pc[w] \in {"add", "download"} /\ pc'[w] = "loop")
                => MarkedEntry(tbd_url[w])]_vars

\* the only entry the store has ever had comes from one call of
\* mark_url_complete, on a url nothing had seen before, and is completed
C27_Witness ==
    /\ proc = "up"
    /\ seed_urls = <<>>
    /\ mark_calls = 1
    /\ mark_arg \notin urls_seen
    /\ DOMAIN save = {get_urlhash(mark_arg)}
    /\ save[get_urlhash(mark_arg)] = <<mark_arg, TRUE>>

\* C28: is_valid stops at the first of its ten checks that rejects: the
\* reason it records is that of the lowest-numbered check the url fails
\* (check 7 taken on the counters as the call finds them), none if it fails
\* no check, and a call that fails one of the checks 1 to 6 leaves
\* url_pattern_counter and domain_path_counter as they were.
static_failures(url) ==
    LET failing(scheme, netloc, query_lower, ext) ==
            {n \in {1, 2, 3, 4, 5, 6, 8, 9, 10} :
                CASE n = 1 -> scheme \notin {"http", "https"}
                  [] n = 2 -> ~ \E d \in VALID_DOMAINS :
                                  netloc = dotted(d) \/ EndsWith(netloc, "." \o dotted(d))
                  [] n = 3 -> \E b \in blocked :
                                  netloc = dotted(b) \/ EndsWith(netloc, "." \o dotted(b))
                  [] n = 4 -> Len(url) > MAX_URL_LENGTH
                  [] n = 5 -> is_calendar_or_event(url)
                  [] n = 6 -> is_known_trap(url)
                  [] n = 8 -> /\ ext # ""
                              /\ ext \notin ALLOWED_EXTENSIONS
                              /\ ext \in INVALID_EXTENSIONS
                  [] n = 9 -> /\ query_lower # ""
                              /\ \E b \in {"format=txt", "format=pdf", "format=csv",
                                           "export=txt", "export=pdf", "download="} :
                                     Contains(query_lower, b)
                  [] n = 10 -> \E x \in {"/search?", "?search=", "/print/", "?print="} :
                                     Contains(str_lower(url), x)}
        of(parsed) ==
            failing(parsed.scheme, str_lower(parsed.netloc), str_lower(parsed.query),
                    path_ext(url))
    IN  of(urlparse(url))

StaticFailures == [url \in AdmitInputs |-> static_failures(url)]

ExtOf == [url \in AdmitInputs |-> path_ext(url)]

check_reason(n, url) ==
    CASE n = 1 -> "bad_scheme"
      [] n = 2 -> "bad_domain"
      [] n = 3 -> "blocked_domain"
      [] n = 4 -> "url_too_long"
      [] n = 5 -> "calendar_event"
      [] n = 6 -> "known_trap"
      [] n = 7 -> "url_trap"
      [] n = 8 -> "ext_" \o ExtOf[url]
      [] n = 9 -> "format_param"
      [] n = 10 -> "action"

failures(url) ==
    StaticFailures[url] \cup
        (IF is_url_trap(url, url_pattern_counter, domain_path_counter).trap THEN {7} ELSE {})

first_of(S) == CHOOSE n \in S : \A m \in S : n <= m

C28_FirstFailingCheck ==
    [][calls' = calls + 1 =>
         LET url == called_url'
             failed == failures(url)
         IN  /\ rejection_reason' = IF failed = {} THEN "" ELSE check_reason(first_of(failed), url)
             /\ failed \cap 1..6 # {} =>
                  /\ url_pattern_counter' = url_pattern_counter
                  /\ domain_path_counter' = domain_path_counter]_vars

\* a url that fails the checks 5 and 6 has been rejected as 'calendar_event'
\* by a call that found counts in the trap detector
C28_Witness ==
    /\ calls > 1
    /\ called_url = "https://ics.uci.edu/login/calendar"
    /\ StaticFailures[called_url] = {5, 6}
    /\ rejection_reason = "calendar_event"
    /\ url_pattern_counter # NoCounts
    /\ domain_path_counter # NoCounts

\* C29: the increment and the comparison of url_pattern_counter are one
\* critical section: at most one thread is inside a with-block of trap_lock,
\* and it holds the lock; for every pattern the counter is the number of
\* calls that have incremented it (none is lost), and of the K calls that
\* have left the block exactly min(K, limit) were not rejected by the
\* pattern rule, the limit being max_repeats or max_repeats_legitimate.
InBlock == {"pattern_read", "pattern_written", "path_read", "path_written"}

limit_of(pattern) == Checks[CHOOSE url \in ParInputs : Checks[url].pattern = pattern].pattern_limit

written(pattern) ==
    {w \in Workers : trap_pc[w] = "pattern_written" /\ Checks[trap_url[w]].pattern = pattern}

C29_AtomicPatternCount ==
    /\ \A w1, w2 \in Workers : trap_pc[w1] \in InBlock /\ trap_pc[w2] \in InBlock => w1 = w2
    /\ \A w \in Workers : trap_pc[w] \in InBlock => trap_lock = w
    /\ DOMAIN pattern_entered \subseteq DOMAIN url_pattern_counter
    /\ \A p \in DOMAIN url_pattern_counter :
         /\ url_pattern_counter[p] = Get(pattern_entered, p) + Cardinality(written(p))
         /\ Get(pattern_passed, p) =
              IF Get(pattern_entered, p) <= limit_of(p) THEN Get(pattern_entered, p)
              ELSE limit_of(p)

\* more calls than the limit have left the block for a pattern of two URLs,
\* made by both threads, while a thread is inside the block again
C29_Witness ==
    /\ \E p \in DOMAIN pattern_entered :
         /\ pattern_entered[p] > limit_of(p)
         /\ pattern_passed[p] = limit_of(p)
         /\ limit_of(p) = max_repeats
    /\ \E w \in Workers : trap_pc[w] = "path_read"
    /\ \E w \in Workers : trap_pc[w] = "pattern"

\* C30: for every host (the lowercase netloc) and path, is_valid has
\* accepted at most max_same calls on URLs of that host and path, at most
\* max_same_legitimate where these URLs match a legitimate pattern, repeated
\* calls and URLs that differ in the query counted together.
same_limit(key) ==
    IF \E url \in SameInputs :
          Checks[url].host_and_path = key /\ Checks[url].path_limit = max_same_legitimate
    THEN max_same_legitimate
    ELSE max_same

C30_SamePathLimit == \A key \in DOMAIN accepted_at : accepted_at[key] <= same_limit(key)

\* C31: a call of is_duplicate that has passed the exact check returns
\* (TRUE, 'similar') if and only if an entry the ring holds at that moment
\* differs from the text's simhash in at most SIMHASH_THRESHOLD bits, none
\* included, and then leaves the ring alone; otherwise it returns not
\* duplicate and appends (simhash, url) to the ring.
bits_apart(x, y) == Cardinality({b \in 0..63 : (b \in x) # (b \in y)})

near_in_ring(simhash) ==
    \E i \in DOMAIN seen_simhashes : bits_apart(simhash, seen_simhashes[i][1]) <= SIMHASH_THRESHOLD

C31_SimilarIffNear ==
    [][\A w \in Workers :
          (dup_pc[w] = "similar" /\ dup_pc'[w] = "idle") =>
              /\ dup_result'[w] = <<TRUE, "similar">> <=> near_in_ring(dup_text[w][1].simhash)
              /\ near_in_ring(dup_text[w][1].simhash) => seen_simhashes' = seen_simhashes
              /\ ~ near_in_ring(dup_text[w][1].simhash) =>
                    /\ dup_result'[w][1] = FALSE
                    /\ seen_simhashes' # <<>>
                    /\ seen_simhashes'[Len(seen_simhashes')] =
                           <<dup_text[w][1].simhash, dup_text[w][2]>>]_vars

\* the ring holds T10 and a text of another digest has been found similar
\* to it by a worker, while the other worker's text, equal in simhash to an
\* entry that has left the ring or never was in it, waits for its comparison
C31_Witness ==
    /\ \E i \in DOMAIN seen_simhashes : seen_simhashes[i][1] = T10.simhash
    /\ \E w \in Workers : dup_result[w] = <<TRUE, "similar">> /\ dup_pc[w] = "idle"
    /\ \E w \in Workers : dup_pc[w] = "similar" /\ dup_text[w][1].md5 = "m6"
    /\ "m8" \in seen_exact_hashes

\* the scraper calls that have returned after passing the checks of the
\* response, and the log entry of each
finished(w) ==
    /\ scrape_pc[w] = "idle"
    /\ scrape_page[w].status = 200
    /\ scrape_page[w].size >= 100
    /\ scrape_page[w].size <= MAX_CONTENT_SIZE
    /\ scrape_page[w].words >= MIN_WORD_COUNT

logged(url) == {<<e.status, e.reason>> : e \in {x \in Range(processing_log) : x.url = url}}

\* the outlinks of the page as fetched that is_valid has not turned away
not_rejected(page) ==
    {l \in extract_next_links(page.url, all_hrefs(page)) : <<l, FALSE>> \notin link_verdicts}

\* C32: a page that passes the checks of the response and is classified as a
\* duplicate returns every outlink of the page that passes is_valid and is
\* not written to the page store; of two pages with one extracted text at
\* different URLs one is saved, the other is logged duplicate/exact, and
\* both return their valid outlinks.
C32_DuplicatesKeepLinks ==
    /\ \A w \in Workers :
          finished(w) =>
             /\ not_rejected(scrape_page[w]) \subseteq scrape_result[w]
             /\ dup_result[w][1] => scrape_page[w].url \notin page_store
    /\ \A w \in Workers : \A v \in Workers \ {w} :
          /\ finished(w) /\ finished(v)
          /\ scrape_page[w].text = scrape_page[v].text
          /\ <<"duplicate", "exact">> \notin logged(scrape_page[w].url)
          => /\ scrape_page[w].url \in page_store
             /\ <<"duplicate", "exact">> \in logged(scrape_page[v].url)

\* C33: every URL in a host queue has an entry in the store under its hash
\* with completed = false, before and after every step, and a step that
\* stops the process leaves the entry of every URL that was queued as it is.
C33_QueuedIsDurable ==
    [][/\ \A u \in Queued : Pending(u)
       /\ \A u \in Queued' : Pending(u)'
       /\ proc' = "down" => \A u \in Queued : Pending(u)']_vars

\* after a crash and a reload, a URL from the store and a URL add_url has
\* added since are queued
C33_Witness ==
    /\ proc = "up" /\ ~restart /\ crashes > 0
    /\ \E u \in Queued : u \in accepted
    /\ \E u \in Queued : u \notin accepted

\* C34: while the process runs, every entry of the store with completed =
\* false is the entry of a URL that is in a host queue or that a worker holds
\* between get_tbd_url and mark_url_complete.
C34_PendingIsQueuedOrHeld ==
    proc \in {"ready", "up"} =>
        \A u \in Stored : Pending(u) => u \in Queued \/ u \in InFlight

\* C35: add_url on a URL whose hash is a key of the store leaves the store,
\* the host queues and the seen set as they are, and no step of the running
\* process turns an entry with completed = true into another one.
C35_AddKeepsEntries ==
    [][/\ \A url \in RawUrls :
             get_urlhash(normalize(url)) \in DOMAIN save
             => add_url(frontier, url) = frontier
       /\ proc = "up" /\ proc' = "up"
          => \A h \in DOMAIN save :
                save[h][2] => h \in DOMAIN save' /\ save'[h] = save[h]]_vars

\* add_url has been called for a URL whose entry was completed and for a URL
\* whose entry was pending
C35_Witness ==
    /\ proc = "up"
    /\ \E u \in passed \ accepted : Completed(u)
    /\ \E u \in passed \ accepted : Pending(u)

\* C36: when the last worker leaves its loop, every host queue is empty and
\* no worker holds a URL.
C36_LastExitLeavesNothing ==
    [][\A w \in Workers :
          (Exits(w) /\ \A v \in Workers \ {w} : pc[v] = "stopped")
          => (Queued' = {} /\ InFlight' = {})]_vars

\* every worker has left its loop after a URL was crawled
C36_Witness ==
    /\ \A w \in Workers : pc[w] = "stopped"
    /\ \E u \in Stored : Completed(u)

\* the steps in which worker w calls mark_url_complete(tbd_url): line 88
\* after the links are added, and line 106 in the handler, which is reached
\* from the download and from _get_total_tbd_count
MarksComplete(w) ==
    \/ pc[w] \in {"download", "add"} /\ pc'[w] = "loop"
    \/ pc[w] = "count" /\ pc'[w] = "loop" /\ Len(domain_queues) # count_len[w]

\* C37: whenever a worker calls mark_url_complete, the argument is a URL that
\* get_tbd_url returned to that worker, not None, and it has an entry in the
\* store.
C37_MarkArgumentWasReturned ==
    [][\A w \in Workers :
          MarksComplete(w) =>
             /\ tbd_url[w] # NoUrl
             /\ get_urlhash(tbd_url[w]) \in DOMAIN save]_vars

\* is_valid(url) would return False if it were called in this state
Rejects(url) ==
    is_valid_counting(url, url_pattern_counter, domain_path_counter).reason # ""

\* C38: is_valid is monotone per URL.  A call that returns False leaves a
\* state in which is_valid rejects that URL; a URL that is_valid rejects in a
\* state is rejected by a call made in that state, and is_valid still rejects
\* it after any call on any URL.
C38_RejectedStaysRejected ==
    [][/\ (calls' > calls /\ rejection_reason' # "") => Rejects(called_url)'
       /\ \A url \in SameInputs :
             Rejects(url) =>
                /\ Rejects(url)'
                /\ (calls' > calls /\ called_url' = url) => rejection_reason' # ""]_vars

\* https://ICS.uci.edu/a, the only URL of its host and path, has been
\* accepted max_same times and then rejected twice, the last call included
C38_Witness ==
    /\ called_url = "https://ICS.uci.edu/a"
    /\ rejection_reason = "url_trap"
    /\ Get(domain_path_counter, Checks["https://ICS.uci.edu/a"].path_key) = max_same + 2

\* C39: any two entries of the SimHash ring differ in more than
\* SIMHASH_THRESHOLD bits, whatever the order in which the threads pass the
\* two blocks of is_duplicate.
C39_RingEntriesFarApart ==
    \A i \in DOMAIN seen_simhashes : \A j \in DOMAIN seen_simhashes :
        i # j => bits_apart(seen_simhashes[i][1], seen_simhashes[j][1]) > SIMHASH_THRESHOLD

\* the ring is full while one thread is between the two blocks with a text
\* near its older entry and far from its newer one
C39_Witness ==
    /\ Len(seen_simhashes) = SIMHASH_WINDOW
    /\ \E w \in Workers :
          /\ dup_pc[w] = "similar"
          /\ bits_apart(dup_text[w][1].simhash, seen_simhashes[1][1]) <= SIMHASH_THRESHOLD
          /\ bits_apart(dup_text[w][1].simhash, seen_simhashes[Len(seen_simhashes)][1])
               > SIMHASH_THRESHOLD

\* the locks thread t has to take to enter stage s, and the locks it holds
\* while it waits for them: those it keeps from its stage and the outer lock
\* of s, which it takes first
needed(t, s) == {outer_of(s), inner_of(s)} \ {""}

held_waiting(t, s) ==
    {l \in Locks : left_for(t, s)[l] = t} \cup ({outer_of(s)} \ {""})

\* thread t, on its way to stage s, waits for a lock that thread u holds on
\* its way to stage r; a thread waits for itself if it holds the lock of the
\* with-block it is to enter and the lock is no RLock
waits_for(t, s, u, r) ==
    IF t = u
    THEN inner_of(s) \in held_waiting(t, s) /\ ~reentrant(inner_of(s))
    ELSE needed(t, s) \cap held_waiting(u, r) # {}

\* the ways on which the threads are: a thread and a stage it may enter next
Ways == {w \in Threads \X (Stages \cup MainStages) : w[2] \in stages_after(w[1])}

\* some threads wait for locks that threads among them hold
Deadlocked ==
    \E D \in SUBSET Ways \ {{}} :
        /\ \A v \in D : \A w \in D : v[1] = w[1] => v = w
        /\ \A v \in D : \E w \in D : waits_for(v[1], v[2], w[1], w[2])

\* C40: a thread holds two locks only as the main thread in the reload, the
\* frontier's lock outside and trap_lock or rejection_lock inside; no thread
\* takes a lock of the scraper while it holds another lock of the scraper or
\* takes the frontier's lock while it holds one; and no threads wait for
\* locks held by one another.
C40_NoLockCycle ==
    /\ \A t \in Threads :
          LET held == {l \in Locks : holder[l] = t} IN
          \/ Cardinality(held) <= 1
          \/ /\ t = "main"
             /\ outer_of(stage[t]) = "frontier"
             /\ held \in {{"frontier", "trap"}, {"frontier", "rejection"}}
    /\ \A t \in Threads : \A s \in stages_after(t) :
          outer_of(s) # "" => t = "main" /\ outer_of(s) = "frontier"
    /\ ~Deadlocked

\* the main thread is in is_url_trap, called from the loop of
\* _parse_save_file: it holds the frontier's lock and trap_lock
C40_Witness ==
    /\ stage["main"] = "reload_path"
    /\ holder["frontier"] = "main"
    /\ holder["trap"] = "main"

=========================================================================
